---- MODULE Spec2Model ----
(***************************************************************************)
(* UAVPathOptimizer: the bandit multi-queue A* planner                     *)
(* (backend/app/sim/algorithms/bandit_mha_star.py), the tick engine        *)
(* (backend/app/sim/engine.py, world.py) and the websocket session         *)
(* (backend/app/main.py).                                                  *)
(*                                                                         *)
(* Numbers.  World and building sizes, the cell side and the parameters    *)
(* given in metres are integral metres.  A Vec3 (a position, a target, a   *)
(* waypoint) holds centimetres.  The other Python floats are kept in fixed *)
(* point with three decimals, rounded to nearest: times in ms, speeds in   *)
(* mm/s, lengths in mm, weights and the UCB constant in thousandths.  The  *)
(* 1e-12 slack of the comparisons is below that resolution and becomes 0.  *)
(***************************************************************************)
EXTENDS Integers, Sequences, FiniteSets, TLC

VARIABLES
    world,        \* engine.world: [size, obstacles]
    drones,       \* engine.drones: sequence of [id, pos, path, target]
    params,       \* engine.params: dict, a function from keys to values
    tick,         \* engine.tick
    tick_rate_hz, \* engine.tick_rate_hz
    algorithm,    \* engine.algorithm: the planner instance
    tick_task,    \* ws_endpoint's tick_task: None or the position of engine.run
    handler,      \* position of the ws_endpoint coroutine
    sent,         \* what the last handled message sent to the client
    budget,       \* messages / calls the environment may still issue
    search,       \* the local state of one BanditMHAStar._plan_one invocation
    obs           \* observations of the last operation, read by the properties

vars == <<world, drones, params, tick, tick_rate_hz, algorithm, tick_task,
          handler, sent, budget, search, obs>>

\* Python's None: "None" where the value is otherwise a string or a number,
\* Nil where it is otherwise a tuple, a record or a dict
None == "None"
Nil == <<>>

Max(a, b) == IF a >= b THEN a ELSE b
Min(a, b) == IF a <= b THEN a ELSE b
Abs(a) == IF a >= 0 THEN a ELSE -a

\* a / b rounded to nearest, b > 0: the fixed-point image of a float division
RoundDiv(a, b) == (2 * a + b) \div (2 * b)

\* dict.get(key, default)
PGet(p, key, default) == IF key \in DOMAIN p THEN p[key] ELSE default

(***************************************************************************)
(* The world.  World.obstacles is a list of Buildings; the model keeps it  *)
(* run-length encoded, as a sequence of [b, times]: building b repeated    *)
(* times times.  Only centre and size in x and y are read by the planner.  *)
(***************************************************************************)
RECURSIVE SumTimes(_, _)
SumTimes(obstacles, i) ==
    IF i > Len(obstacles) THEN 0 ELSE obstacles[i].times + SumTimes(obstacles, i + 1)

\* len(world.obstacles)
NumObstacles(w) == SumTimes(w.obstacles, 1)

(***************************************************************************)
(* GridCacheBMHA                                                           *)
(***************************************************************************)
\* every candidate cell taken as overlapping
RectOverlapsAlways(cx, cy, w, d, cell_x, cell_y, cell_size) == TRUE

\* the rectangle centred at (cx, cy) of widths (w, d) against the square of
\* cell (cell_x, cell_y); all coordinates doubled to stay integral
rect_overlaps_cell(cx, cy, w, d, cell_x, cell_y, cell_size) ==
    LET rx0 == 2 * cx - w
        rx1 == 2 * cx + w
        ry0 == 2 * cy - d
        ry1 == 2 * cy + d
        cx0 == 2 * cell_x * cell_size
        cx1 == 2 * (cell_x + 1) * cell_size
        cy0 == 2 * cell_y * cell_size
        cy1 == 2 * (cell_y + 1) * cell_size
    IN ~(rx1 <= cx0 \/ rx0 >= cx1 \/ ry1 <= cy0 \/ ry0 >= cy1)

\* INF = 10**9 of the distance transform
DistInf == 1000000000

\* cells of width and of height for a world size and a cell side
GridW(w, cell_size) == Max(1, w.size[1] \div cell_size)
GridH(w, cell_size) == Max(1, w.size[2] \div cell_size)

\* the candidate range of one building and the overlap test inside it
BuildingBlocks(b, gx, gy, w_cells, h_cells, cell_size, inflate) ==
    LET w == b.sx + 2 * inflate
        d == b.sy + 2 * inflate
        xmin == Max(0, (2 * b.cx - w) \div (2 * cell_size))
        xmax == Min(w_cells - 1, (2 * b.cx + w) \div (2 * cell_size))
        ymin == Max(0, (2 * b.cy - d) \div (2 * cell_size))
        ymax == Min(h_cells - 1, (2 * b.cy + d) \div (2 * cell_size))
    IN /\ gx \in xmin..xmax
       /\ gy \in ymin..ymax
       /\ rect_overlaps_cell(b.cx, b.cy, w, d, gx, gy, cell_size)

\* the blocked mask after the rasterization loop, indexed gy * w_cells + gx
Rasterize(w, w_cells, h_cells, cell_size, inflate) ==
    [i \in 0..(w_cells * h_cells - 1) |->
        \E k \in 1..Len(w.obstacles) :
            BuildingBlocks(w.obstacles[k].b, i % w_cells, i \div w_cells,
                           w_cells, h_cells, cell_size, inflate)]

\* forward pass of the distance transform, cells i..N-1 still to visit
RECURSIVE ForwardPass(_, _, _, _)
ForwardPass(dist, i, w_cells, N) ==
    IF i >= N THEN dist
    ELSE IF dist[i] = 0 THEN ForwardPass(dist, i + 1, w_cells, N)
    ELSE LET x == i % w_cells
             y == i \div w_cells
             b0 == dist[i]
             b1 == IF x > 0 THEN Min(b0, dist[i - 1] + 1) ELSE b0
             b2 == IF y > 0 THEN Min(b1, dist[i - w_cells] + 1) ELSE b1
         IN ForwardPass([dist EXCEPT ![i] = b2], i + 1, w_cells, N)

\* no backward pass
BackwardPassSkipped(dist, i, w_cells, h_cells) == dist

\* backward pass, cells i..0 still to visit
RECURSIVE BackwardPass(_, _, _, _)
BackwardPass(dist, i, w_cells, h_cells) ==
    IF i < 0 THEN dist
    ELSE IF dist[i] = 0 THEN BackwardPass(dist, i - 1, w_cells, h_cells)
    ELSE LET x == i % w_cells
             y == i \div w_cells
             b0 == dist[i]
             b1 == IF x + 1 < w_cells THEN Min(b0, dist[i + 1] + 1) ELSE b0
             b2 == IF y + 1 < h_cells THEN Min(b1, dist[i + w_cells] + 1) ELSE b1
         IN BackwardPass([dist EXCEPT ![i] = b2], i - 1, w_cells, h_cells)

\* the distance transform of a blocked mask: 0 or INF, then the two passes
DistanceTransform(blocked, w_cells, h_cells) ==
    LET N == w_cells * h_cells
        dist0 == [i \in 0..(N - 1) |-> IF blocked[i] THEN 0 ELSE DistInf]
        dist1 == ForwardPass(dist0, 0, w_cells, N)
    IN BackwardPass(dist1, N - 1, w_cells, h_cells)

\* GridCacheBMHA.build.  clearance_m[i] is dist[i] * cell; the grid keeps dist.
GridBuild(w, cell_size, inflate) ==
    LET w_cells == GridW(w, cell_size)
        h_cells == GridH(w, cell_size)
        blocked == Rasterize(w, w_cells, h_cells, cell_size, inflate)
    IN [cell |-> cell_size, w |-> w_cells, h |-> h_cells,
        blocked |-> blocked,
        dist |-> DistanceTransform(blocked, w_cells, h_cells)]

\* GridCacheBMHA.build_fallback: one cell per obstacle centre, clearance 2 * cell
GridBuildFallback(w, cell_size, inflate) ==
    LET w_cells == GridW(w, cell_size)
        h_cells == GridH(w, cell_size)
        N == w_cells * h_cells
    IN [cell |-> cell_size, w |-> w_cells, h |-> h_cells,
        blocked |-> [i \in 0..(N - 1) |->
            \E k \in 1..Len(w.obstacles) :
                LET b == w.obstacles[k].b
                    gx == Max(0, Min(w_cells - 1, b.cx \div cell_size))
                    gy == Max(0, Min(h_cells - 1, b.cy \div cell_size))
                IN i = gy * w_cells + gx],
        dist |-> [i \in 0..(N - 1) |-> 2]]

idx(grid, g) == g[2] * grid.w + g[1]

\* the bounds test dropped on the high side, the index taken modulo w * h
is_blocked_wrapped(grid, g) ==
    \/ g[1] < 0
    \/ g[2] < 0
    \/ grid.blocked[idx(grid, g) % (grid.w * grid.h)]

is_blocked(grid, g) ==
    \/ g[1] < 0
    \/ g[2] < 0
    \/ g[1] >= grid.w
    \/ g[2] >= grid.h
    \/ grid.blocked[idx(grid, g)]

\* the low corner of the cell in place of its centre: (gx * cell, gy * cell, z)
to_world_corner(grid, g, z) ==
    [x |-> g[1] * grid.cell * 100, y |-> g[2] * grid.cell * 100, z |-> 100 * z]

\* cell centre ((gx + 0.5) * cell, (gy + 0.5) * cell, z), z in metres
to_world(grid, g, z) ==
    [x |-> (2 * g[1] + 1) * grid.cell * 50,
     y |-> (2 * g[2] + 1) * grid.cell * 50,
     z |-> 100 * z]

\* the cell of the point (x, y): floor(x / cell), floor(y / cell), clamped
from_world(grid, x, y) ==
    <<Max(0, Min(grid.w - 1, x \div (100 * grid.cell))),
      Max(0, Min(grid.h - 1, y \div (100 * grid.cell)))>>

\* clearance_m[idx(g)] in metres, saturated at DistInf
clearance_m(grid, g) ==
    IF grid.dist[idx(grid, g)] >= DistInf THEN DistInf
    ELSE grid.dist[idx(grid, g)] * grid.cell

GridCells(grid) == (0..(grid.w - 1)) \X (0..(grid.h - 1))
FreeCells(grid) == {c \in GridCells(grid) : ~is_blocked(grid, c)}

(***************************************************************************)
(* Float functions on the bounded domains the grids give                   *)
(***************************************************************************)
\* 1000 * sqrt(n) rounded, n = 0..50: math.hypot(dx, dy) for dx*dx + dy*dy = n
SqrtTable ==
    <<0, 1000, 1414, 1732, 2000, 2236, 2449, 2646, 2828, 3000, 3162, 3317, 3464,
      3606, 3742, 3873, 4000, 4123, 4243, 4359, 4472, 4583, 4690, 4796, 4899,
      5000, 5099, 5196, 5292, 5385, 5477, 5568, 5657, 5745, 5831, 5916, 6000,
      6083, 6164, 6245, 6325, 6403, 6481, 6557, 6633, 6708, 6782, 6856, 6928,
      7000, 7071>>

\* 1000 * math.hypot(dx, dy)
HypotMilli(dx, dy) == SqrtTable[dx * dx + dy * dy + 1]

\* 1000 * math.log(n) rounded, n = 1..40
LnTable ==
    <<0, 693, 1099, 1386, 1609, 1792, 1946, 2079, 2197, 2303, 2398, 2485, 2565,
      2639, 2708, 2773, 2833, 2890, 2944, 2996, 3045, 3091, 3135, 3178, 3219,
      3258, 3296, 3332, 3367, 3401, 3434, 3466, 3497, 3526, 3555, 3584, 3611,
      3638, 3664, 3689>>

\* floor(sqrt(x)) by bisection on lo..hi, lo*lo <= x < (hi+1)*(hi+1)
RECURSIVE IsqrtRec(_, _, _)
IsqrtRec(x, lo, hi) ==
    IF lo >= hi THEN lo
    ELSE LET mid == (lo + hi + 1) \div 2
         IN IF mid * mid <= x THEN IsqrtRec(x, mid, hi) ELSE IsqrtRec(x, lo, mid - 1)

\* float("inf") of g_cost.get(n, float("inf"))
FloatInf == 2000000000

\* time in ms of dist_mm at v_mmps; max(1e-6, v) keeps the divisor positive
TimeMs(dist_mm, v_mmps) == RoundDiv(dist_mm * 1000, Max(1, v_mmps))

\* _speed_from_clearance, mm/s; clr_m and kappa_m in metres
speed_from_clearance(clr_m, v_min, v_max, kappa_m) ==
    IF kappa_m <= 0 THEN v_max
    ELSE IF clr_m >= DistInf THEN Max(v_min, v_max)
    ELSE Max(v_min, Min(v_max,
             v_min + RoundDiv((v_max - v_min) * clr_m, clr_m + kappa_m)))

(***************************************************************************)
(* Heuristics and f-values.  st is the state of one plan.                  *)
(***************************************************************************)
GGet(g_cost, n) == IF n \in DOMAIN g_cost THEN g_cost[n] ELSE FloatInf

\* math.hypot(n - t) * gcache.cell, mm
CellDist(grid, n, t) == HypotMilli(n[1] - t[1], n[2] - t[2]) * grid.cell

h_euclid_time(n, t, v_max, grid) == TimeMs(CellDist(grid, n, t), v_max)

h_clear_time(n, t, v_max, v_min, clr_k, grid) ==
    TimeMs(CellDist(grid, n, t),
           speed_from_clearance(clearance_m(grid, n), v_min, v_max, clr_k))

h_landmark_time(n, landmarks, goal_lm_d, v_max, grid) ==
    LET d(k) == Abs(CellDist(grid, n, landmarks[k]) - goal_lm_d[k])
        best == Max(Max(0, d(1)), Max(Max(d(2), d(3)), d(4)))
    IN TimeMs(best, v_max)

\* cosine between S->T and n->T in thousandths, clamped to [-1, 1]
bearing_alignment(S, T, n) ==
    LET g1 == <<T[1] - S[1], T[2] - S[2]>>
        g2 == <<T[1] - n[1], T[2] - n[2]>>
        dot == g1[1] * g2[1] + g1[2] * g2[2]
        nn == HypotMilli(g1[1], g1[2]) * HypotMilli(g2[1], g2[2])
    IN IF nn = 0 THEN 0
       ELSE Max(-1000, Min(1000, RoundDiv(dot * 1000000, RoundDiv(nn, 1000))))

h_bearing_time(n, t, S, T, v_max, gamma, grid) ==
    LET h == h_euclid_time(n, t, v_max, grid)
        align == bearing_alignment(S, T, n)
    IN Max(0, RoundDiv(h * (1000 - RoundDiv(gamma * align, 1000)), 1000))

f_anchor(st, n) == GGet(st.g_cost, n) + h_euclid_time(n, st.T, st.v_max, st.grid)

f_clear(st, n) ==
    GGet(st.g_cost, n)
      + RoundDiv(st.w_clear * h_clear_time(n, st.T, st.v_max, st.v_min, st.clr_k, st.grid),
                 1000)

f_landmark(st, n) ==
    GGet(st.g_cost, n)
      + RoundDiv(st.w_landm * h_landmark_time(n, st.landmarks, st.goal_lm_d,
                                              st.v_max, st.grid), 1000)

f_bearing(st, n) ==
    GGet(st.g_cost, n)
      + RoundDiv(st.w_bear * h_bearing_time(n, st.T, st.S, st.T, st.v_max,
                                            st.gamma_bear, st.grid), 1000)

\* the f-value of queue q_idx (0 anchor, 1 clear, 2 landmark, 3 bearing)
f_k(st, q_idx, n) ==
    IF q_idx = 0 THEN f_anchor(st, n)
    ELSE IF q_idx = 1 THEN f_clear(st, n)
    ELSE IF q_idx = 2 THEN f_landmark(st, n)
    ELSE f_bearing(st, n)

(***************************************************************************)
(* Open sets: heapq heaps of (key, push counter, node).  A heap is kept as *)
(* the set of its entries; heappop takes the least entry, and the counter  *)
(* makes the order total.  open[k + 1] is the heap of queue k.             *)
(***************************************************************************)
EntryLess(a, b) == a[1] < b[1] \/ (a[1] = b[1] /\ a[2] < b[2])

\* the entry pushed first, whatever its key, where heappop gives the least
HeapOldest(heap) == CHOOSE e \in heap : \A o \in heap : e[2] <= o[2]

HeapTop(heap) == CHOOSE e \in heap : \A o \in heap : o = e \/ EntryLess(e, o)

\* _push: one entry on one heap
push(st, q_idx, key, node) ==
    [st EXCEPT !.push_counter = @ + 1,
               !.open[q_idx + 1] = @ \cup {<<key, st.push_counter + 1, node>>}]

\* the pushes of a node without the one on the bearing heap
PushAllButBearing(st, node) ==
    LET s1 == push(st, 0, f_anchor(st, node), node)
        s2 == push(s1, 1, f_clear(st, node), node)
    IN push(s2, 2, f_landmark(st, node), node)

\* the four pushes of a node, in the order anchor, clear, landmark, bearing
PushAll(st, node) ==
    LET s1 == push(st, 0, f_anchor(st, node), node)
        s2 == push(s1, 1, f_clear(st, node), node)
        s3 == push(s2, 2, f_landmark(st, node), node)
    IN push(s3, 3, f_bearing(st, node), node)

\* is the popped entry skipped: node closed, or its current f above the key
StaleEntry(st, q_idx, e) ==
    \/ e[3] \in st.closed
    \/ f_k(st, q_idx, e[3]) > e[1]

\* _pop_valid giving up at the first stale entry instead of popping on
pop_valid_once(st, q_idx, heap) ==
    IF heap = {} THEN [node |-> Nil, heap |-> heap, entry |-> Nil]
    ELSE LET e == HeapTop(heap)
             rest == heap \ {e}
         IN IF StaleEntry(st, q_idx, e) THEN [node |-> Nil, heap |-> rest, entry |-> Nil]
            ELSE [node |-> e[3], heap |-> rest, entry |-> e]

\* _pop_valid on heap (the heap of q_idx): the node returned, the heap left and
\* the entry whose pop returned the node
RECURSIVE pop_valid(_, _, _)
pop_valid(st, q_idx, heap) ==
    IF heap = {} THEN [node |-> Nil, heap |-> heap, entry |-> Nil]
    ELSE LET e == HeapTop(heap)
             rest == heap \ {e}
         IN IF StaleEntry(st, q_idx, e) THEN pop_valid(st, q_idx, rest)
            ELSE [node |-> e[3], heap |-> rest, entry |-> e]

(***************************************************************************)
(* Bandit scheduler                                                        *)
(***************************************************************************)
\* avg + c * sqrt(log(max(1, total_pulls)) / pulls[i]), thousandths
UcbScore(reward_sum_i, pulls_i, total_pulls, c) ==
    LET avg == RoundDiv(reward_sum_i, Max(1, pulls_i))
        lg == LnTable[Max(1, total_pulls)]
        root == IsqrtRec((lg * 1000) \div pulls_i, 0, 2000)
    IN avg + RoundDiv(c * root, 1000)

\* the argmax loop over avail (ascending), strict > keeps the first best;
\* best_score starts at -1e18, here -FloatInf
RECURSIVE UcbBest(_, _, _, _, _)
UcbBest(st, avail, i, best_i, best_score) ==
    IF i > 3 THEN best_i
    ELSE IF i \notin avail THEN UcbBest(st, avail, i + 1, best_i, best_score)
    ELSE LET score == UcbScore(st.reward_sum[i + 1], st.pulls[i + 1],
                               st.total_pulls, st.ucb_c)
         IN IF score > best_score
            THEN UcbBest(st, avail, i + 1, i, score)
            ELSE UcbBest(st, avail, i + 1, best_i, best_score)

\* the scheduler without the forced anchor pull
choose_queue_unforced(st, force_anchor) ==
    LET avail == {i \in 0..3 : st.open[i + 1] # {}}
        cold == {i \in avail : st.pulls[i + 1] = 0}
    IN IF avail = {} THEN 0
       ELSE IF cold # {} THEN CHOOSE i \in cold : \A j \in cold : i <= j
       ELSE UcbBest(st, avail, 0, CHOOSE i \in avail : \A j \in avail : i <= j,
                    -FloatInf)

\* the scheduler taking the last queue never pulled where the code takes the first
choose_queue_last_cold(st, force_anchor) ==
    LET avail == {i \in 0..3 : st.open[i + 1] # {}}
        cold == {i \in avail : st.pulls[i + 1] = 0}
    IN IF force_anchor /\ st.open[1] # {} THEN 0
       ELSE IF avail = {} THEN 0
       ELSE IF cold # {} THEN CHOOSE i \in cold : \A j \in cold : i >= j
       ELSE UcbBest(st, avail, 0, CHOOSE i \in avail : \A j \in avail : i <= j,
                    -FloatInf)

choose_queue_ucb(st, force_anchor) ==
    LET avail == {i \in 0..3 : st.open[i + 1] # {}}
        cold == {i \in avail : st.pulls[i + 1] = 0}
    IN IF force_anchor /\ st.open[1] # {} THEN 0
       ELSE IF avail = {} THEN 0
       ELSE IF cold # {} THEN CHOOSE i \in cold : \A j \in cold : i <= j
       ELSE UcbBest(st, avail, 0, CHOOSE i \in avail : \A j \in avail : i <= j,
                    -FloatInf)

(***************************************************************************)
(* BanditMHAStar._nearest_free                                             *)
(***************************************************************************)
\* range(1, 50): the rings searched are 1..RingStop-1
RingStop == 50

\* the k-th cell (k = 1..8r) of ring r around g0 in the order the two loops
\* visit them: dx ascending with dy in (-r, r), then dy ascending with dx in (-r, r)
RingCell(g0, r, k) ==
    IF k <= 2 * (2 * r + 1)
    THEN <<g0[1] - r + (k - 1) \div 2, g0[2] + (IF k % 2 = 1 THEN -r ELSE r)>>
    ELSE <<g0[1] + (IF k % 2 = 1 THEN -r ELSE r),
           g0[2] - r + 1 + (k - 2 * (2 * r + 1) - 1) \div 2>>

\* the positions of ring r whose cell is not blocked
RingFree(grid, g0, r) == {k \in 1..(8 * r) : ~is_blocked(grid, RingCell(g0, r, k))}

\* the first position of a non-empty set of positions
FirstOf(ks) == CHOOSE k \in ks : \A j \in ks : k <= j

\* the rings from r on; g0 when ring RingStop is reached.  g0 is in bounds, so
\* a ring wider than the grid holds only out-of-bounds cells, which are blocked:
\* the scan of those rings finds nothing and is not evaluated cell by cell.
RECURSIVE NearestFreeFrom(_, _, _)
NearestFreeFrom(grid, g0, r) ==
    IF r >= RingStop \/ r >= Max(grid.w, grid.h) THEN g0
    ELSE IF RingFree(grid, g0, r) # {}
    THEN RingCell(g0, r, FirstOf(RingFree(grid, g0, r)))
    ELSE NearestFreeFrom(grid, g0, r + 1)

\* a spiral that falls back to the origin cell, not to g0, when no ring is free
nearest_free_origin(grid, g0) ==
    IF ~is_blocked(grid, g0) THEN g0
    ELSE IF is_blocked(grid, NearestFreeFrom(grid, g0, 1)) THEN <<0, 0>>
    ELSE NearestFreeFrom(grid, g0, 1)

nearest_free(grid, g0) ==
    IF ~is_blocked(grid, g0) THEN g0 ELSE NearestFreeFrom(grid, g0, 1)

(***************************************************************************)
(* BanditMHAStar._plan_one: the state st of one invocation                 *)
(***************************************************************************)
N4 == <<<<-1, 0>>, <<1, 0>>, <<0, -1>>, <<0, 1>>>>
N8 == N4 \o <<<<-1, -1>>, <<1, -1>>, <<-1, 1>>, <<1, 1>>>>

\* 1000 * math.sqrt(2.0) * 1000: the diagonal of a 1 m cell in micrometres
Sqrt2Micro == 1414214

\* lines 184-243: parameters, snapped S and T, the first four pushes
PlanInit(grid, start, goal, z, p) ==
    LET G == from_world(grid, goal.x, goal.y)
        S0 == from_world(grid, start.x, start.y)
        T == IF is_blocked(grid, G) THEN nearest_free(grid, G) ELSE G
        S == IF is_blocked(grid, S0) THEN nearest_free(grid, S0) ELSE S0
        landmarks == <<<<0, 0>>, <<grid.w - 1, 0>>, <<0, grid.h - 1>>,
                       <<grid.w - 1, grid.h - 1>>>>
        v_max == 1000 * PGet(p, "v_max", 20)
        st0 == [grid |-> grid, S |-> S, T |-> T, z |-> z,
                v_max |-> v_max,
                v_min |-> 1000 * PGet(p, "v_min", 4),
                clr_k |-> PGet(p, "clr_kappa_m", 8),
                samples |-> PGet(p, "edge_samples", 2),
                neigh |-> IF PGet(p, "neighbors8", FALSE) THEN N8 ELSE N4,
                w_clear |-> PGet(p, "w_clear", 1150),
                w_landm |-> PGet(p, "w_landmark", 1000),
                w_bear |-> PGet(p, "w_bearing", 1100),
                gamma_bear |-> PGet(p, "bearing_gamma", 200),
                ucb_c |-> PGet(p, "ucb_c", 800),
                anchor_period |-> PGet(p, "anchor_period", 6),
                max_exp |-> PGet(p, "max_expansions", 2500),
                subopt_w |-> PGet(p, "accept_suboptimal_w", 1050),
                landmarks |-> landmarks,
                goal_lm_d |-> [k \in 1..4 |-> CellDist(grid, landmarks[k], G)],
                g_cost |-> (S :> 0),
                parent |-> <<>>,
                open |-> <<{}, {}, {}, {}>>,
                closed |-> {},
                push_counter |-> 0,
                pulls |-> <<0, 0, 0, 0>>,
                reward_sum |-> <<0, 0, 0, 0>>,
                total_pulls |-> 0,
                last_progress |-> h_euclid_time(S, T, v_max, grid),
                goal_node |-> Nil,
                expansions |-> 0,
                q_idx |-> -1,
                node |-> Nil,
                exit |-> None,
                pc |-> "loop",
                path |-> <<>>]
    IN IF S = T
       THEN [st0 EXCEPT !.pc = "done", !.exit = "same_cell",
                        !.path = <<to_world(grid, S, z)>>]
       ELSE LET st1 == PushAll(st0, S)
            IN IF st1.expansions < st1.max_exp THEN st1
               ELSE [st1 EXCEPT !.pc = "reconstruct", !.exit = "budget"]

\* Python's round(): num / den to the nearest integer, ties to even; den > 0
RoundHalfEven(num, den) ==
    LET fl == num \div den
        r2 == 2 * (num - fl * den)
    IN IF r2 < den THEN fl
       ELSE IF r2 > den THEN fl + 1
       ELSE IF fl % 2 = 0 THEN fl ELSE fl + 1

\* the sampling loop of lines 291-300 from sample k on: the least clearance
RECURSIVE SampleClearance(_, _, _, _, _)
SampleClearance(st, u, v, k, min_clr) ==
    IF k >= st.samples THEN min_clr
    ELSE LET sx == RoundHalfEven(u[1] * (st.samples - 1) + k * (v[1] - u[1]),
                                 st.samples - 1)
             sy == RoundHalfEven(u[2] * (st.samples - 1) + k * (v[2] - u[2]),
                                 st.samples - 1)
         IN IF sx < 0 \/ sy < 0 \/ sx >= st.grid.w \/ sy >= st.grid.h THEN 0
            ELSE SampleClearance(st, u, v, k + 1,
                                 Min(min_clr, clearance_m(st.grid, <<sx, sy>>)))

\* an edge that takes no time
EdgeTimeZero(st, u, v, off) == 0

\* the traversal time of the edge u -> v by offset off, ms
EdgeTime(st, u, v, off) ==
    LET length == IF off[1] = 0 \/ off[2] = 0 THEN 1000 * st.grid.cell
                  ELSE RoundDiv(Sqrt2Micro * st.grid.cell, 1000)
        v_eff == IF st.samples <= 2
                 THEN Min(speed_from_clearance(clearance_m(st.grid, u),
                                               st.v_min, st.v_max, st.clr_k),
                          speed_from_clearance(clearance_m(st.grid, v),
                                               st.v_min, st.v_max, st.clr_k))
                 ELSE speed_from_clearance(SampleClearance(st, u, v, 0, DistInf),
                                           st.v_min, st.v_max, st.clr_k)
    IN TimeMs(length, v_eff)

\* an edge taken as improving v when it only ties: cand <= g_cost.get(v, inf)
ImprovesOrTies(cand, old) == cand <= old

\* does the edge improve v: cand + 1e-12 < g_cost.get(v, inf)
Improves(cand, old) == cand < old

\* Relax without the blocked mask: only the bounds are tested before the edge
RECURSIVE RelaxUnmasked(_, _, _)
RelaxUnmasked(st, u, i) ==
    IF i > Len(st.neigh) THEN st
    ELSE LET off == st.neigh[i]
             v == <<u[1] + off[1], u[2] + off[2]>>
         IN IF v \notin GridCells(st.grid) THEN RelaxUnmasked(st, u, i + 1)
            ELSE LET cand == GGet(st.g_cost, u) + EdgeTime(st, u, v, off)
                 IN IF Improves(cand, GGet(st.g_cost, v))
                    THEN RelaxUnmasked(PushAll([st EXCEPT !.g_cost = (v :> cand) @@ @,
                                                          !.parent = (v :> u) @@ @], v),
                                       u, i + 1)
                    ELSE RelaxUnmasked(st, u, i + 1)

\* Relax with the improved neighbour pushed on the anchor heap alone
RECURSIVE RelaxAnchorOnly(_, _, _)
RelaxAnchorOnly(st, u, i) ==
    IF i > Len(st.neigh) THEN st
    ELSE LET off == st.neigh[i]
             v == <<u[1] + off[1], u[2] + off[2]>>
         IN IF is_blocked(st.grid, v) THEN RelaxAnchorOnly(st, u, i + 1)
            ELSE LET cand == GGet(st.g_cost, u) + EdgeTime(st, u, v, off)
                     s1 == [st EXCEPT !.g_cost = (v :> cand) @@ @,
                                      !.parent = (v :> u) @@ @]
                 IN IF Improves(cand, GGet(st.g_cost, v))
                    THEN RelaxAnchorOnly(push(s1, 0, f_anchor(s1, v), v), u, i + 1)
                    ELSE RelaxAnchorOnly(st, u, i + 1)

\* the neighbour loop of lines 278-311 from offset i on
RECURSIVE Relax(_, _, _)
Relax(st, u, i) ==
    IF i > Len(st.neigh) THEN st
    ELSE LET off == st.neigh[i]
             v == <<u[1] + off[1], u[2] + off[2]>>
         IN IF is_blocked(st.grid, v) THEN Relax(st, u, i + 1)
            ELSE LET cand == GGet(st.g_cost, u) + EdgeTime(st, u, v, off)
                 IN IF Improves(cand, GGet(st.g_cost, v))
                    THEN Relax(PushAll([st EXCEPT !.g_cost = (v :> cand) @@ @,
                                                  !.parent = (v :> u) @@ @], v),
                               u, i + 1)
                    ELSE Relax(st, u, i + 1)

\* Expand leaving the popped node open: closed[u] is not set
ExpandOpen(st, q_idx, u) ==
    LET s1 == [st EXCEPT !.pulls[q_idx + 1] = @ + 1, !.total_pulls = @ + 1]
        s2 == Relax(s1, u, 1)
        cur == h_euclid_time(u, st.T, st.v_max, st.grid)
        r == Max(0, st.last_progress - cur)
    IN [s2 EXCEPT !.reward_sum[q_idx + 1] = @ + r, !.last_progress = cur]

\* lines 270-314 for the node u popped from q_idx: close, expand, reward
Expand(st, q_idx, u) ==
    IF u \in st.closed THEN st
    ELSE LET s1 == [st EXCEPT !.closed = @ \cup {u},
                              !.pulls[q_idx + 1] = @ + 1,
                              !.total_pulls = @ + 1]
             s2 == Relax(s1, u, 1)
             cur == h_euclid_time(u, st.T, st.v_max, st.grid)
             r == Max(0, st.last_progress - cur)
         IN [s2 EXCEPT !.reward_sum[q_idx + 1] = @ + r, !.last_progress = cur]

\* the early-out taken whatever g_cost[T] is
AcceptAnyCost(st, u) == TRUE

\* the early-out of line 267: g_cost[T] <= subopt_w * h_anchor(S, T)
AcceptSuboptimal(st, u) ==
    GGet(st.g_cost, u)
        <= RoundDiv(st.subopt_w * h_euclid_time(st.S, st.T, st.v_max, st.grid), 1000)

\* the while test letting one iteration more through: expansions <= max_exp
ContinueLate(st) ==
    IF st.expansions <= st.max_exp THEN st
    ELSE [st EXCEPT !.pc = "reconstruct", !.exit = "budget"]

\* after an iteration that did not break: the while test of line 245
Continue(st) ==
    IF st.expansions < st.max_exp THEN st
    ELSE [st EXCEPT !.pc = "reconstruct", !.exit = "budget"]

\* one iteration of the while loop, lines 246-314.  expansions % anchor_period
\* raises ZeroDivisionError when anchor_period is 0; with a negative period the
\* remainder is 0 exactly when the period divides expansions.
LoopBody(st) ==
    IF st.anchor_period = 0
    THEN [st EXCEPT !.expansions = @ + 1, !.pc = "raised",
                    !.exit = "ZeroDivisionError"]
    ELSE
    LET n == st.expansions + 1
        forced_anchor == (n % Abs(st.anchor_period) = 0)
        q_idx == choose_queue_ucb(st, forced_anchor)
        pv == pop_valid(st, q_idx, st.open[q_idx + 1])
        s1 == [st EXCEPT !.expansions = n, !.q_idx = q_idx, !.node = pv.node,
                         !.open[q_idx + 1] = pv.heap]
        u == pv.node
    IN IF u = Nil THEN [s1 EXCEPT !.pc = "reconstruct", !.exit = "empty"]
       ELSE IF u = st.T /\ q_idx = 0
       THEN [s1 EXCEPT !.goal_node = u, !.pc = "reconstruct", !.exit = "anchor_goal"]
       ELSE IF u = st.T /\ AcceptSuboptimal(st, u)
       THEN [s1 EXCEPT !.goal_node = u, !.pc = "reconstruct", !.exit = "subopt_goal"]
       ELSE Continue(Expand([s1 EXCEPT !.goal_node = IF u = st.T THEN u ELSE @],
                            q_idx, u))

\* the walk of lines 325-331 from cur; fuel bounds the walk by the cells there are
RECURSIVE Chain(_, _, _, _)
Chain(parent, S, cur, fuel) ==
    IF cur = S THEN <<>>
    ELSE IF fuel = 0 THEN <<Nil>>
    ELSE LET nxt == IF cur \in DOMAIN parent THEN parent[cur] ELSE S
         IN IF nxt = S THEN <<cur, S>>
            ELSE <<cur>> \o Chain(parent, S, nxt, fuel - 1)

Reverse(seq) == [k \in 1..Len(seq) |-> seq[Len(seq) + 1 - k]]

\* lines 316-333: the path returned once the loop has ended
Reconstruct(st) ==
    LET has == st.goal_node # Nil \/ st.T \in DOMAIN st.parent \/ st.T = st.S
        cur == IF st.goal_node # Nil THEN st.goal_node ELSE st.T
        chain == Reverse(Chain(st.parent, st.S, cur, Cardinality(DOMAIN st.parent) + 1))
    IN [st EXCEPT !.pc = "done",
                  !.path = IF ~has THEN <<to_world(st.grid, st.T, st.z)>>
                           ELSE IF cur \notin DOMAIN st.parent /\ cur # st.S
                           THEN <<to_world(st.grid, st.S, st.z),
                                  to_world(st.grid, cur, st.z)>>
                           ELSE [k \in 1..Len(chain) |->
                                    to_world(st.grid, chain[k], st.z)]]

\* one step of the plan: an iteration, or the reconstruction
PlanStep(st) ==
    IF st.pc = "loop" THEN LoopBody(st)
    ELSE IF st.pc = "reconstruct" THEN Reconstruct(st)
    ELSE st

\* the plan run to its return, or to the exception it raises
RECURSIVE PlanRun(_)
PlanRun(st) == IF st.pc \in {"done", "raised"} THEN st ELSE PlanRun(PlanStep(st))

\* _plan_one(world, start, goal, z, p) on the cached grid: the path returned
plan_one(grid, start, goal, z, p) == PlanRun(PlanInit(grid, start, goal, z, p)).path

(***************************************************************************)
(* AStarGrid (a_star_grid.py).  Its GridCache has the mask and the methods *)
(* of GridCacheBMHA, with width and height for w and h and no clearance    *)
(* field; the model keeps the one record shape [cell, w, h, blocked], so   *)
(* that idx, is_blocked, to_world and from_world read both.  Scores are in *)
(* thousandths of a step.                                                  *)
(***************************************************************************)
\* GridCache.build: the rasterization loop is the one of GridCacheBMHA.build
AGridBuild(w, cell_size, clearance) ==
    LET w_cells == GridW(w, cell_size)
        h_cells == GridH(w, cell_size)
    IN [cell |-> cell_size, w |-> w_cells, h |-> h_cells,
        blocked |-> Rasterize(w, w_cells, h_cells, cell_size, clearance)]

\* range(1, 20): the rings searched by AStarGrid._nearest_free are 1..ARingStop-1
ARingStop == 20

RECURSIVE ANearestFreeFrom(_, _, _)
ANearestFreeFrom(grid, g0, r) ==
    IF r >= ARingStop \/ r >= Max(grid.w, grid.h) THEN g0
    ELSE IF RingFree(grid, g0, r) # {}
    THEN RingCell(g0, r, FirstOf(RingFree(grid, g0, r)))
    ELSE ANearestFreeFrom(grid, g0, r + 1)

\* AStarGrid._nearest_free
a_nearest_free(grid, g0) ==
    IF ~is_blocked(grid, g0) THEN g0 ELSE ANearestFreeFrom(grid, g0, 1)

\* AStarGrid._h: the Manhattan distance
a_h(a, b) == 1000 * (Abs(a[1] - b[1]) + Abs(a[2] - b[2]))

\* heap entries (fval, (x, y)) in Python's tuple order
AEntryLess(a, b) ==
    \/ a[1] < b[1]
    \/ a[1] = b[1] /\ a[2][1] < b[2][1]
    \/ a[1] = b[1] /\ a[2][1] = b[2][1] /\ a[2][2] < b[2][2]

\* a pop that takes the greatest entry of the heap
AHeapLast(heap) == CHOOSE e \in heap : \A o \in heap : o = e \/ AEntryLess(o, e)

\* heapq.heappop: the least entry
AHeapTop(heap) == CHOOSE e \in heap : \A o \in heap : o = e \/ AEntryLess(e, o)

\* lines 98-109: the state of one AStarGrid._plan_one invocation
APlanInit(grid, start, goal, z, diagonal) ==
    LET s0 == from_world(grid, start.x, start.y)
        g0 == from_world(grid, goal.x, goal.y)
        g == IF is_blocked(grid, g0) THEN a_nearest_free(grid, g0) ELSE g0
    IN [grid |-> grid, s |-> s0, g |-> g, goal |-> goal, z |-> z,
        nbrs |-> IF diagonal THEN N8 ELSE N4,
        came |-> <<>>,
        g_score |-> (s0 :> 0),
        f_score |-> (s0 :> a_h(s0, g)),
        openpq |-> {<<a_h(s0, g), s0>>},
        closed |-> {},
        pc |-> "loop",
        path |-> <<>>]

\* the neighbour loop of lines 119-131 from offset i on
RECURSIVE ARelax(_, _, _)
ARelax(st, cur, i) ==
    IF i > Len(st.nbrs) THEN st
    ELSE LET off == st.nbrs[i]
             n == <<cur[1] + off[1], cur[2] + off[2]>>
             step == IF off[1] # 0 /\ off[2] # 0 THEN 1414 ELSE 1000
             tentative == st.g_score[cur] + step
             fval == tentative + a_h(n, st.g)
         IN IF is_blocked(st.grid, n) \/ n \in st.closed THEN ARelax(st, cur, i + 1)
            ELSE IF tentative < GGet(st.g_score, n)
            THEN ARelax([st EXCEPT !.came = (n :> cur) @@ @,
                                   !.g_score = (n :> tentative) @@ @,
                                   !.f_score = (n :> fval) @@ @,
                                   !.openpq = @ \cup {<<fval, n>>}],
                        cur, i + 1)
            ELSE ARelax(st, cur, i + 1)

\* _reconstruct's walk from cur along came; fuel bounds it by the entries of came
RECURSIVE AChain(_, _, _)
AChain(came, cur, fuel) ==
    IF cur \in DOMAIN came /\ fuel > 0
    THEN <<cur>> \o AChain(came, came[cur], fuel - 1)
    ELSE <<cur>>

\* AStarGrid._reconstruct
a_reconstruct(st, cur) ==
    LET path == Reverse(AChain(st.came, cur, Cardinality(DOMAIN st.came)))
    IN [k \in 1..Len(path) |-> to_world(st.grid, path[k], st.z)]

\* one iteration of the while loop, lines 112-131
ALoopBody(st) ==
    LET e == AHeapTop(st.openpq)
        cur == e[2]
        s1 == [st EXCEPT !.openpq = @ \ {e}]
    IN IF cur \in st.closed THEN s1
       ELSE IF cur = st.g
       THEN [s1 EXCEPT !.pc = "done", !.path = a_reconstruct(s1, cur)]
       ELSE ARelax([s1 EXCEPT !.closed = @ \cup {cur}], cur, 1)

\* line 133: the heap is empty, the goal point itself is returned
AFallback(st) ==
    [st EXCEPT !.pc = "done",
               !.path = <<[x |-> st.goal.x, y |-> st.goal.y, z |-> 100 * st.z]>>]

(***************************************************************************)
(* Planner instances, plan_paths, step_drones, the registry                *)
(***************************************************************************)
\* self._replan_every
replan_every == 20

\* the large-grid rule: more cells or more obstacles than these coarsen the
\* cell to at least CoarseCell metres
MaxGridCells == 300000
MaxGridObstacles == 5000
CoarseCell == 24

\* BanditMHAStar(): no grid, nothing recorded
BanditMHAStar ==
    [name |-> "bandit_mha_star", grid |-> Nil, last_tick |-> <<>>, last_goal |-> <<>>]

\* StraightLine()
StraightLine == [name |-> "straight_line"]

\* the rebuild test: no grid yet, or the cached cell is not the requested cell
NeedsRebuild(alg, cell) == alg.grid = Nil \/ alg.grid.cell # cell

\* the size test of a rebuild, the cell side in centimetres: the cells counted
\* are those of a grid of side max(cell, 1.0)
GridTooLarge(w, cell_cm) ==
    \/ Max(1, (100 * w.size[1]) \div Max(cell_cm, 100))
          * Max(1, (100 * w.size[2]) \div Max(cell_cm, 100)) > MaxGridCells
    \/ NumObstacles(w) > MaxGridObstacles

\* the build calls of a rebuild, without the grids: which method gives the grid
\* kept, with which cell side, or the exception that leaves plan_paths
RebuildCalls(w, cell_cm, build_raises, fallback_raises) ==
    IF GridTooLarge(w, cell_cm)
    THEN [method |-> IF build_raises THEN "build_fallback" ELSE "build",
          cell_cm |-> Max(cell_cm, 100 * CoarseCell),
          raised |-> build_raises /\ fallback_raises]
    ELSE [method |-> "build", cell_cm |-> cell_cm, raised |-> build_raises]

\* the grid the call plans on
CachedGrid(alg, w, cell, inflate) ==
    IF ~NeedsRebuild(alg, cell) THEN alg.grid
    ELSE IF GridTooLarge(w, 100 * cell)
    THEN GridBuild(w, Max(cell, CoarseCell), inflate)
    ELSE GridBuild(w, cell, inflate)

\* tgt = (d.target.x, d.target.y)
TargetXY(d) == <<d.target.x, d.target.y>>

\* the need test with the cadence test strict: replan only after more than
\* replan_every ticks
need_late(alg, d, tick_now) ==
    \/ d.id \notin DOMAIN alg.last_tick
    \/ d.id \notin DOMAIN alg.last_goal
    \/ alg.last_goal[d.id] # TargetXY(d)
    \/ tick_now - alg.last_tick[d.id] > replan_every
    \/ d.path = <<>>

\* the need test of one drone against the planner's records
need(alg, d, tick_now) ==
    \/ d.id \notin DOMAIN alg.last_tick
    \/ d.id \notin DOMAIN alg.last_goal
    \/ alg.last_goal[d.id] # TargetXY(d)
    \/ tick_now - alg.last_tick[d.id] >= replan_every
    \/ d.path = <<>>

\* the plan toward the goal on record when there is one, not toward d.target
PlanDroneToRecordedGoal(alg, d, cruise, p) ==
    plan_one(alg.grid, d.pos,
             IF d.id \in DOMAIN alg.last_goal
             THEN [x |-> alg.last_goal[d.id][1], y |-> alg.last_goal[d.id][2],
                   z |-> d.target.z]
             ELSE d.target,
             cruise, p)

\* self._plan_one(ctx.world, d.pos, d.target, cruise_alt, p)
PlanDrone(alg, d, cruise, p) == plan_one(alg.grid, d.pos, d.target, cruise, p)

\* does that invocation raise instead of returning a path
PlanDroneRaises(alg, d, cruise, p) ==
    PlanRun(PlanInit(alg.grid, d.pos, d.target, cruise, p)).pc = "raised"

\* the one element of a singleton: The({F(x) : x \in {e}}) is F(e) with e
\* evaluated once
The(S) == CHOOSE x \in S : TRUE

\* what the invocation for drone d gives: an exception, or a path
PlanOutcome(alg, d, cruise, p) ==
    [raised |-> PlanDroneRaises(alg, d, cruise, p),
     path |-> PlanDrone(alg, d, cruise, p)]

\* the loop over ctx.drones with the records replaced, not updated, by a replan
RECURSIVE PlanDronesForgetful(_, _, _, _, _)
PlanDronesForgetful(r, i, tick_now, cruise, p) ==
    IF i > Len(r.drones) THEN r
    ELSE LET d == r.drones[i]
             Planned(out) ==
                 [alg |-> [r.alg EXCEPT
                              !.last_goal = (d.id :> TargetXY(d)),
                              !.last_tick = (d.id :> tick_now)],
                  drones |-> [r.drones EXCEPT ![i].path = out.path],
                  replanned |-> r.replanned \cup {i},
                  raised |-> FALSE]
         IN IF d.target = Nil \/ ~need(r.alg, d, tick_now)
            THEN PlanDronesForgetful(r, i + 1, tick_now, cruise, p)
            ELSE The({IF out.raised THEN [r EXCEPT !.raised = TRUE]
                      ELSE The({PlanDronesForgetful(r2, i + 1, tick_now, cruise, p) :
                                   r2 \in {Planned(out)}}) :
                          out \in {PlanOutcome(r.alg, d, cruise, p)}})

\* the loop over ctx.drones from index i; r = [alg, drones, replanned, raised].
\* An exception out of _plan_one ends the loop: the drones before i keep what
\* the call gave them, drone i and the drones after it are left as they were.
RECURSIVE PlanDrones(_, _, _, _, _)
PlanDrones(r, i, tick_now, cruise, p) ==
    IF i > Len(r.drones) THEN r
    ELSE LET d == r.drones[i]
             Planned(out) ==
                 [alg |-> [r.alg EXCEPT
                              !.last_goal = (d.id :> TargetXY(d)) @@ @,
                              !.last_tick = (d.id :> tick_now) @@ @],
                  drones |-> [r.drones EXCEPT ![i].path = out.path],
                  replanned |-> r.replanned \cup {i},
                  raised |-> FALSE]
         IN IF d.target = Nil \/ ~need(r.alg, d, tick_now)
            THEN PlanDrones(r, i + 1, tick_now, cruise, p)
            ELSE The({IF out.raised THEN [r EXCEPT !.raised = TRUE]
                      ELSE The({PlanDrones(r2, i + 1, tick_now, cruise, p) :
                                   r2 \in {Planned(out)}}) :
                          out \in {PlanOutcome(r.alg, d, cruise, p)}})

\* BanditMHAStar.plan_paths.  The result holds the instance and the drones after
\* the call, the indices of the drones it replanned, whether it built a grid and
\* whether it ended by raising.
plan_paths(alg, w, ds, p) ==
    LET cell == PGet(p, "grid_cell_m", 20)
        inflate == PGet(p, "clearance_m", 6)
        cruise == PGet(p, "cruise_alt_m", 60)
        r0 == [alg |-> [alg EXCEPT !.grid = CachedGrid(alg, w, cell, inflate)],
               drones |-> ds, replanned |-> {}, raised |-> FALSE]
    IN The({[alg |-> r.alg, drones |-> r.drones, replanned |-> r.replanned,
             rebuilt |-> NeedsRebuild(alg, cell), raised |-> r.raised] :
                r \in {The({PlanDrones(r1, 1, PGet(p, "tick", 0), cruise, p) :
                               r1 \in {r0}})}})

\* StraightLine.plan_paths: a one-waypoint path to the target
straight_line_plan_paths(alg, w, ds, p) ==
    [alg |-> alg,
     drones |-> [i \in 1..Len(ds) |->
                    IF ds[i].target = Nil THEN ds[i]
                    ELSE [ds[i] EXCEPT !.path = <<ds[i].target>>]],
     replanned |-> {i \in 1..Len(ds) : ds[i].target # Nil},
     rebuilt |-> FALSE, raised |-> FALSE]

\* self.algorithm.plan_paths(ctx)
AlgorithmPlanPaths(alg, w, ds, p) ==
    IF alg.name = "straight_line" THEN straight_line_plan_paths(alg, w, ds, p)
    ELSE plan_paths(alg, w, ds, p)

\* one drone of step_drones; step is speed * dt in cm
StepDrone(d, step) ==
    IF d.path = <<>> THEN d
    ELSE LET target == d.path[1]
             dx == target.x - d.pos.x
             dy == target.y - d.pos.y
             dz == target.z - d.pos.z
             d2 == dx * dx + dy * dy + dz * dz
             dist == IsqrtRec(d2, 0, 46340)
             stp == Min(step, dist)
         IN IF dist = 0
            THEN [d EXCEPT !.pos = target, !.path = Tail(@)]
            ELSE [d EXCEPT !.pos = [x |-> d.pos.x + RoundDiv(dx * stp, dist),
                                    y |-> d.pos.y + RoundDiv(dy * stp, dist),
                                    z |-> d.pos.z + RoundDiv(dz * stp, dist)]]

\* step_drones(drones, dt, speed) with dt = 1.0 / max(1, hz), speed in m/s
step_drones(ds, hz, speed) ==
    [i \in 1..Len(ds) |-> StepDrone(ds[i], RoundDiv(100 * speed, Max(1, hz)))]

\* the names of _REGISTRY
Registry == {"straight_line", "bandit_mha_star"}

\* what build_algorithm raises for a name that is not registered
KeyError == [raised |-> "KeyError"]

\* a build_algorithm that falls back to StraightLine for a name it does not know
build_algorithm_default(name) ==
    IF name = "bandit_mha_star" THEN BanditMHAStar ELSE StraightLine

\* build_algorithm(name): a fresh instance, or KeyError raised
build_algorithm(name) ==
    IF name \notin Registry THEN KeyError
    ELSE IF name = "straight_line" THEN StraightLine
    ELSE BanditMHAStar

(***************************************************************************)
(* Inputs: worlds, positions and parameter maps the client can send        *)
(***************************************************************************)
\* the most buildings of a world of the search specification
MaxObstacles == 2

Bldg(cx, cy, sx, sy) == [cx |-> cx, cy |-> cy, sx |-> sx, sy |-> sy]

\* a block, a wall with a gap, a wall without, a corner block, a full cover
Buildings ==
    {Bldg(15, 15, 10, 10), Bldg(10, 15, 20, 10), Bldg(15, 15, 30, 10),
     Bldg(5, 5, 10, 10), Bldg(15, 15, 30, 30)}

RECURSIVE SeqsUpTo(_, _)
SeqsUpTo(S, n) ==
    IF n = 0 THEN {<<>>}
    ELSE LET shorter == SeqsUpTo(S, n - 1)
         IN shorter \cup {Append(q, x) : q \in shorter, x \in S}

SearchWorlds ==
    {[size |-> <<30, 30>>, obstacles |-> o] :
        o \in SeqsUpTo({[b |-> b, times |-> 1] : b \in Buildings}, MaxObstacles)}

\* Vec3(x, y, z) of metres
Vec3(x, y, z) == [x |-> 100 * x, y |-> 100 * y, z |-> 100 * z]

StartPoints == {Vec3(5, 5, 0), Vec3(15, 15, 0), Vec3(25, 5, 0)}
GoalPoints == {Vec3(25, 25, 0), Vec3(5, 25, 0), Vec3(15, 15, 0), Vec3(5, 5, 0)}

\* the parameters every map of the model sets: cell 10 m, no inflation
BaseParams == ("grid_cell_m" :> 10) @@ ("clearance_m" :> 0)

SearchParams ==
    {BaseParams,
     ("neighbors8" :> TRUE) @@ BaseParams,
     ("max_expansions" :> 3) @@ BaseParams,
     ("neighbors8" :> TRUE) @@ ("anchor_period" :> 2) @@ ("v_max" :> 10)
        @@ ("v_min" :> 10) @@ ("clr_kappa_m" :> 0) @@ BaseParams}

(***************************************************************************)
(* SpecSearch: one _plan_one invocation, an iteration of its loop a step   *)
(***************************************************************************)
Idle ==
    /\ drones = <<>>
    /\ tick = 0
    /\ tick_rate_hz = 20
    /\ algorithm = None
    /\ tick_task = None
    /\ handler = None
    /\ sent = None
    /\ budget = 0

\* a world of 5 x 5 cells: a wall along the first row, a block in a far corner
WideWorld ==
    [size |-> <<50, 50>>,
     obstacles |-> <<[b |-> Bldg(15, 5, 20, 10), times |-> 1],
                     [b |-> Bldg(45, 45, 20, 20), times |-> 1]>>]

\* the default parameters, and no tolerance for suboptimality: w = 1.0
WideParams == {BaseParams, ("accept_suboptimal_w" :> 1000) @@ BaseParams}

\* the plans of the specification: world, parameters, start and goal
SearchCases ==
    {[world |-> w, params |-> p, start |-> start, goal |-> goal] :
        w \in SearchWorlds, p \in SearchParams, start \in StartPoints,
        goal \in GoalPoints}
    \cup {[world |-> WideWorld, params |-> p, start |-> Vec3(25, 45, 0),
           goal |-> goal] :
                p \in WideParams, goal \in {Vec3(5, 15, 0), Vec3(45, 5, 0)}}

InitSearch ==
    /\ Idle
    /\ \E c \in SearchCases :
          /\ world = c.world
          /\ params = c.params
          /\ obs = [start |-> c.start, goal |-> c.goal, anchor_open |-> FALSE,
                    free_choice |-> -1]
          /\ search = PlanInit(GridBuild(c.world, PGet(c.params, "grid_cell_m", 20),
                                         PGet(c.params, "clearance_m", 6)),
                               c.start, c.goal, PGet(c.params, "cruise_alt_m", 60),
                               c.params)

\* obs keeps, of the iteration taken, whether the anchor heap held an entry when
\* the queue was chosen and the queue the scheduler picks when nothing forces it
SearchIterate ==
    /\ search.pc = "loop"
    /\ search' = LoopBody(search)
    /\ obs' = [obs EXCEPT !.anchor_open = search.open[1] # {},
                          !.free_choice = choose_queue_ucb(search, FALSE)]
    /\ UNCHANGED <<world, drones, params, tick, tick_rate_hz, algorithm, tick_task,
                   handler, sent, budget>>

SearchReconstruct ==
    /\ search.pc = "reconstruct"
    /\ search' = Reconstruct(search)
    /\ UNCHANGED <<world, drones, params, tick, tick_rate_hz, algorithm, tick_task,
                   handler, sent, budget, obs>>

NextSearch == SearchIterate \/ SearchReconstruct

SpecSearch == InitSearch /\ [][NextSearch]_vars

\* SpecSearchLive: the same plans from the call on.  The arguments are bound by
\* the first step; _plan_one is sequential code, so a plan that can take its
\* next step takes it: weak fairness of the next-state relation.  The fairness
\* is written out, WF_v(A) being []<>~ENABLED <<A>>_v \/ []<><<A>>_v, with the
\* enabling condition given by pc: a step is possible at the call, in the loop
\* and at the reconstruction, and none once the plan has returned or raised.
\* A step that is taken changes pc or, inside the loop, raises expansions.
InitCall ==
    /\ Idle
    /\ world = WideWorld
    /\ params = BaseParams
    /\ obs = [start |-> Nil, goal |-> Nil, anchor_open |-> FALSE, free_choice |-> -1]
    /\ search = [pc |-> "call"]

SearchCall ==
    /\ search.pc = "call"
    /\ \E c \in SearchCases :
          /\ world' = c.world
          /\ params' = c.params
          /\ obs' = [start |-> c.start, goal |-> c.goal, anchor_open |-> FALSE,
                     free_choice |-> -1]
          /\ search' = PlanInit(GridBuild(c.world, PGet(c.params, "grid_cell_m", 20),
                                          PGet(c.params, "clearance_m", 6)),
                                c.start, c.goal, PGet(c.params, "cruise_alt_m", 60),
                                c.params)
    /\ UNCHANGED <<drones, tick, tick_rate_hz, algorithm, tick_task, handler, sent,
                   budget>>

NextSearchLive == SearchCall \/ SearchIterate \/ SearchReconstruct

CanStep == search.pc \in {"call", "loop", "reconstruct"}

\* where the plan is: its pc and, inside the loop, the iterations run
Position == <<search.pc, IF search.pc = "loop" THEN search.expansions ELSE 0>>

Advances ==
    \/ search'.pc # search.pc
    \/ search.pc = "loop" /\ search'.expansions > search.expansions

SpecSearchLive ==
    /\ InitCall
    /\ [][NextSearchLive]_vars
    /\ ([]<>(~CanStep) \/ []<><<Advances>>_Position)

(***************************************************************************)
(* SpecScheduler: one call of _choose_queue_ucb on heaps, pulls and        *)
(* rewards drawn from small sets.  search holds the arguments, obs the     *)
(* call and what it returned.                                              *)
(***************************************************************************)
\* a heap is empty or holds one entry
SchedHeaps == {{}, {<<0, 1, <<0, 0>>>>}}

SchedPulls == {0, 1, 3}

\* reward sums, thousandths
SchedRewards == {0, 400}

InitScheduler ==
    /\ Idle
    /\ world = WideWorld
    /\ params = BaseParams
    /\ obs = [force |-> FALSE, picked |-> -1]
    /\ \E o \in [1..4 -> SchedHeaps], pl \in [1..4 -> SchedPulls],
          rs \in [1..4 -> SchedRewards] :
          search = [open |-> o, pulls |-> pl, reward_sum |-> rs,
                    total_pulls |-> pl[1] + pl[2] + pl[3] + pl[4],
                    ucb_c |-> PGet(BaseParams, "ucb_c", 800), pc |-> "choose"]

SchedulerCall ==
    /\ search.pc = "choose"
    /\ \E force \in BOOLEAN :
          obs' = [force |-> force, picked |-> choose_queue_ucb(search, force)]
    /\ search' = [search EXCEPT !.pc = "chosen"]
    /\ UNCHANGED <<world, drones, params, tick, tick_rate_hz, algorithm, tick_task,
                   handler, sent, budget>>

NextScheduler == SchedulerCall

SpecScheduler == InitScheduler /\ [][NextScheduler]_vars

(***************************************************************************)
(* SpecNearestFree: one call of _nearest_free on a built grid.  search     *)
(* holds the grid, the cell given and, once returned, the cell found.      *)
(***************************************************************************)
\* a strip of n cells of 10 m in a row with all cells but the first under one
\* building
Strip(n) ==
    [size |-> <<10 * n, 10>>,
     obstacles |-> <<[b |-> Bldg(5 * n + 5, 5, 10 * (n - 1), 10), times |-> 1]>>]

\* the worlds of the plans with each of their cells, and strips with cells that
\* lie 49, 50 and 51 rings from the one free cell
NearestCases ==
    {[world |-> w, g0 |-> g] : w \in SearchWorlds, g \in (0..2) \X (0..2)}
        \cup {[world |-> Strip(52), g0 |-> <<x, 0>>] : x \in {1, 25, 49, 50, 51}}

InitNearestFree ==
    /\ Idle
    /\ obs = [start |-> Nil, goal |-> Nil]
    /\ \E c \in NearestCases :
          /\ world = c.world
          /\ params = BaseParams
          /\ search = [grid |-> GridBuild(c.world, PGet(BaseParams, "grid_cell_m", 20),
                                          PGet(BaseParams, "clearance_m", 6)),
                       g0 |-> c.g0, found |-> Nil, pc |-> "call"]

NearestFreeCall ==
    /\ search.pc = "call"
    /\ search' = [search EXCEPT !.pc = "returned",
                                !.found = nearest_free(search.grid, search.g0)]
    /\ UNCHANGED <<world, drones, params, tick, tick_rate_hz, algorithm, tick_task,
                   handler, sent, budget, obs>>

NextNearestFree == NearestFreeCall

SpecNearestFree == InitNearestFree /\ [][NextNearestFree]_vars

(***************************************************************************)
(* SpecGrid: one grid cache built from a world, a cell side and an         *)
(* inflation by build or by build_fallback, then asked is_blocked for one  *)
(* coordinate.  search holds the arguments, the grid and the answer.       *)
(***************************************************************************)
\* the buildings that cover the cells i.. of a mask, one square per cell
RECURSIVE MaskObstacles(_, _, _)
MaskObstacles(mask, i, w_cells) ==
    IF i \notin DOMAIN mask THEN <<>>
    ELSE LET rest == MaskObstacles(mask, i + 1, w_cells)
             b == Bldg(10 * (i % w_cells) + 5, 10 * (i \div w_cells) + 5, 10, 10)
         IN IF mask[i] THEN <<[b |-> b, times |-> 1]>> \o rest ELSE rest

\* the grids of cells of 10 m whose every mask is built
MaskDims == {<<3, 3>>, <<4, 2>>, <<1, 4>>, <<5, 1>>}

MaskWorlds ==
    UNION {{[size |-> <<10 * d[1], 10 * d[2]>>,
             obstacles |-> MaskObstacles(mask, 0, d[1])] :
                mask \in [0..(d[1] * d[2] - 1) -> BOOLEAN]} : d \in MaskDims}

\* buildings off the cell lines, across the border of the world, thin and wide
RasterBuildings ==
    {Bldg(cx, cy, sx, sy) : cx \in {-5, 0, 12, 15, 20, 33}, cy \in {5, 20},
                            sx \in {1, 10, 25}, sy \in {3, 10}}

RasterWorlds ==
    {[size |-> s, obstacles |-> <<[b |-> b, times |-> 1]>>] :
        s \in {<<30, 30>>, <<35, 25>>}, b \in RasterBuildings}

GridCases ==
    {[world |-> w, cell |-> 10, inflate |-> 0] : w \in MaskWorlds \cup SearchWorlds}
        \cup {[world |-> w, cell |-> c, inflate |-> i] :
                w \in RasterWorlds, c \in {7, 10}, i \in {0, 3}}

InitGrid ==
    /\ Idle
    /\ obs = [start |-> Nil, goal |-> Nil]
    /\ \E c \in GridCases :
          /\ world = c.world
          /\ params = ("grid_cell_m" :> c.cell) @@ ("clearance_m" :> c.inflate)
          /\ search = [cell |-> c.cell, inflate |-> c.inflate, grid |-> Nil,
                       g |-> Nil, answer |-> FALSE, pc |-> "call"]

GridUnchanged ==
    UNCHANGED <<world, drones, params, tick, tick_rate_hz, algorithm, tick_task,
                handler, sent, budget, obs>>

BuildCall ==
    /\ search.pc = "call"
    /\ search' = [search EXCEPT !.pc = "built",
                     !.grid = GridBuild(world, search.cell, search.inflate)]
    /\ GridUnchanged

FallbackCall ==
    /\ search.pc = "call"
    /\ search' = [search EXCEPT !.pc = "fallback",
                     !.grid = GridBuildFallback(world, search.cell, search.inflate)]
    /\ GridUnchanged

\* is_blocked of a coordinate of the grid or of the ring of cells around it
IsBlockedCall ==
    /\ search.pc \in {"built", "fallback"}
    /\ search.g = Nil
    /\ \E g \in (-1..search.grid.w) \X (-1..search.grid.h) :
          search' = [search EXCEPT !.g = g, !.answer = is_blocked(search.grid, g)]
    /\ GridUnchanged

NextGrid == BuildCall \/ FallbackCall \/ IsBlockedCall

SpecGrid == InitGrid /\ [][NextGrid]_vars

(***************************************************************************)
(* SpecRebuild: the rebuild of plan_paths on a planner with no grid, for   *)
(* worlds and cell sides whose grids are too large to build here.  search  *)
(* holds the cell side in centimetres, whether build and build_fallback    *)
(* raise on this world, and the build calls made.                          *)
(***************************************************************************)
RebuildSizes ==
    {<<30, 30>>, <<500, 500>>, <<547, 548>>, <<548, 548>>, <<1000, 300>>,
     <<1000, 301>>, <<2000, 2000>>}

\* cell sides of 0.25 m to 30 m
RebuildCells == {25, 50, 100, 200, 2400, 3000}

RebuildCounts == {0, 5000, 5001}

InitRebuild ==
    /\ Idle
    /\ params = BaseParams
    /\ obs = [start |-> Nil, goal |-> Nil]
    /\ \E s \in RebuildSizes, n \in RebuildCounts :
          world = [size |-> s,
                   obstacles |-> IF n = 0 THEN <<>>
                                 ELSE <<[b |-> Bldg(15, 15, 10, 10), times |-> n]>>]
    /\ \E c \in RebuildCells, br \in BOOLEAN, fr \in BOOLEAN :
          /\ fr => br
          /\ search = [cell_cm |-> c, build_raises |-> br, fallback_raises |-> fr,
                       call |-> Nil, pc |-> "call"]

RebuildCall ==
    /\ search.pc = "call"
    /\ search' = [search EXCEPT !.pc = "done",
                     !.call = RebuildCalls(world, search.cell_cm, search.build_raises,
                                           search.fallback_raises)]
    /\ GridUnchanged

NextRebuild == RebuildCall

SpecRebuild == InitRebuild /\ [][NextRebuild]_vars

(***************************************************************************)
(* SpecAStar: one AStarGrid._plan_one invocation, an iteration a step      *)
(***************************************************************************)
\* the parameters AStarGrid.plan_paths reads, with and without diagonal moves
AStarParams ==
    {("allow_diagonal" :> FALSE) @@ BaseParams, ("allow_diagonal" :> TRUE) @@ BaseParams}

InitAStar ==
    /\ Idle
    /\ \E w \in SearchWorlds, p \in AStarParams, start \in StartPoints,
          goal \in GoalPoints :
          /\ world = w
          /\ params = p
          /\ obs = [start |-> start, goal |-> goal]
          /\ search = APlanInit(AGridBuild(w, PGet(p, "grid_cell_m", 10),
                                           PGet(p, "clearance_m", 5)),
                                start, goal, PGet(p, "cruise_alt_m", 50),
                                PGet(p, "allow_diagonal", TRUE))

AStarIterate ==
    /\ search.pc = "loop"
    /\ search.openpq # {}
    /\ search' = ALoopBody(search)
    /\ UNCHANGED <<world, drones, params, tick, tick_rate_hz, algorithm, tick_task,
                   handler, sent, budget, obs>>

AStarExhausted ==
    /\ search.pc = "loop"
    /\ search.openpq = {}
    /\ search' = AFallback(search)
    /\ UNCHANGED <<world, drones, params, tick, tick_rate_hz, algorithm, tick_task,
                   handler, sent, budget, obs>>

NextAStar == AStarIterate \/ AStarExhausted

SpecAStar == InitAStar /\ [][NextAStar]_vars

(***************************************************************************)
(* SpecPlanner: one planner instance serving a sequence of plan_paths      *)
(* calls, the engine's world, drones and params changing between calls     *)
(***************************************************************************)
\* the most plan_paths calls, step_drones calls and changes between calls
MaxCalls == 3
MaxSteps == 1
MaxChanges == 1

Drone(id, pos, target, path) == [id |-> id, pos |-> pos, target |-> target, path |-> path]

OpenWorld == [size |-> <<30, 30>>, obstacles |-> <<>>]
BlockWorld ==
    [size |-> <<30, 30>>, obstacles |-> <<[b |-> Bldg(15, 15, 10, 10), times |-> 1]>>]
\* more obstacles than MaxGridObstacles: 5001 copies of one building
CrowdedWorld ==
    [size |-> <<48, 48>>, obstacles |-> <<[b |-> Bldg(30, 30, 10, 10), times |-> 5001]>>]

PlannerWorlds == {OpenWorld, BlockWorld, CrowdedWorld}

\* flight at ground level: the drones of the model start at z = 0
LevelParams == ("cruise_alt_m" :> 0) @@ BaseParams

PlannerParams == {LevelParams, ("grid_cell_m" :> 12) @@ LevelParams}

DroneLists ==
    {<<Drone("d1", Vec3(5, 5, 0), Vec3(25, 25, 0), <<>>)>>,
     <<Drone("d1", Vec3(5, 5, 0), Vec3(5, 25, 0), <<Vec3(25, 25, 0)>>)>>,
     <<Drone("d1", Vec3(5, 5, 0), Nil, <<Vec3(25, 25, 0)>>)>>,
     <<Drone("d1", Vec3(5, 5, 0), Vec3(25, 25, 0), <<Vec3(25, 25, 0)>>),
       Drone("d2", Vec3(25, 5, 0), Vec3(25, 5, 0), <<>>)>>}

\* the ticks the calls are made at
PlanTicks == {0, 10, 20}

\* the session part of the state, at rest
NoSession ==
    /\ tick = 0
    /\ tick_task = Nil
    /\ handler = None
    /\ sent = None

InitPlanner ==
    /\ NoSession
    /\ tick_rate_hz = 1
    /\ search = Nil
    /\ algorithm = BanditMHAStar
    /\ budget = [calls |-> MaxCalls, steps |-> MaxSteps, changes |-> MaxChanges]
    /\ \E w \in PlannerWorlds, p \in PlannerParams, ds \in DroneLists :
          /\ world = w
          /\ params = p
          /\ drones = ds
    /\ obs = [op |-> "init", alg |-> Nil, drones |-> Nil, replanned |-> {},
              rebuilt |-> FALSE, unchanged |-> FALSE, call |-> Nil]

\* what obs keeps of the last call once something else has happened
AfterCall(op) == [obs EXCEPT !.op = op, !.alg = Nil, !.drones = Nil]

\* engine.run's params["tick"] = t followed by algorithm.plan_paths(ctx); a call
\* that raises leaves what it had done by then
CallPlanPaths ==
    /\ budget.calls > 0
    /\ \E t \in PlanTicks :
          LET p == ("tick" :> t) @@ params
              r == AlgorithmPlanPaths(algorithm, world, drones, p)
              inputs == <<world, PGet(p, "grid_cell_m", 20)>>
          IN /\ params' = p
             /\ algorithm' = r.alg
             /\ drones' = r.drones
             /\ obs' = [op |-> IF r.raised THEN "raised" ELSE "plan",
                        alg |-> algorithm, drones |-> drones,
                        replanned |-> r.replanned, rebuilt |-> r.rebuilt,
                        unchanged |-> (obs.call = inputs), call |-> inputs]
    /\ budget' = [budget EXCEPT !.calls = @ - 1]
    /\ UNCHANGED <<world, tick, tick_rate_hz, tick_task, handler, sent, search>>

\* engine.run's step_drones(self.drones, dt, speed), which follows the plan
CallStepDrones ==
    /\ budget.steps > 0
    /\ obs.op = "plan"
    /\ drones' = step_drones(drones, tick_rate_hz, PGet(params, "speed", 30))
    /\ budget' = [budget EXCEPT !.steps = @ - 1]
    /\ obs' = AfterCall("step")
    /\ UNCHANGED <<world, params, tick, tick_rate_hz, algorithm, tick_task, handler,
                   sent, search>>

\* engine.world = msg.world
ChangeWorld ==
    /\ budget.changes > 0
    /\ \E w \in PlannerWorlds \ {world} : world' = w
    /\ budget' = [budget EXCEPT !.changes = @ - 1]
    /\ obs' = AfterCall("world")
    /\ UNCHANGED <<drones, params, tick, tick_rate_hz, algorithm, tick_task, handler,
                   sent, search>>

\* engine.set_drones(msg.drones)
ChangeDrones ==
    /\ budget.changes > 0
    /\ \E ds \in DroneLists \ {drones} : drones' = ds
    /\ budget' = [budget EXCEPT !.changes = @ - 1]
    /\ obs' = AfterCall("drones")
    /\ UNCHANGED <<world, params, tick, tick_rate_hz, algorithm, tick_task, handler,
                   sent, search>>

\* engine.set_params(msg.params): params.update(...)
ChangeParams ==
    /\ budget.changes > 0
    /\ \E p \in PlannerParams : params' = p @@ params /\ params' # params
    /\ budget' = [budget EXCEPT !.changes = @ - 1]
    /\ obs' = AfterCall("params")
    /\ UNCHANGED <<world, drones, tick, tick_rate_hz, algorithm, tick_task, handler,
                   sent, search>>

\* engine.set_algorithm("bandit_mha_star"): a fresh instance
ChangePlanner ==
    /\ budget.changes > 0
    /\ algorithm # BanditMHAStar
    /\ algorithm' = build_algorithm("bandit_mha_star")
    /\ budget' = [budget EXCEPT !.changes = @ - 1]
    /\ obs' = [AfterCall("planner") EXCEPT !.call = Nil]
    /\ UNCHANGED <<world, drones, params, tick, tick_rate_hz, tick_task, handler,
                   sent, search>>

NextPlanner ==
    \/ CallPlanPaths
    \/ CallStepDrones
    \/ ChangeWorld
    \/ ChangeDrones
    \/ ChangeParams
    \/ ChangePlanner

SpecPlanner == InitPlanner /\ [][NextPlanner]_vars

(***************************************************************************)
(* SpecPass: one plan_paths pass of a fresh planner over a list of two     *)
(* drones, which may share an id.  search keeps the list the pass was      *)
(* given.                                                                  *)
(***************************************************************************)
PassIds == {"d1", "d2"}
PassStarts == {Vec3(5, 5, 0), Vec3(25, 5, 0)}
PassTargets == {Nil, Vec3(25, 25, 0), Vec3(5, 5, 0)}
PassPaths == {<<>>, <<Vec3(15, 25, 0)>>}

PassDrones ==
    {Drone(id, pos, target, path) :
        id \in PassIds, pos \in PassStarts, target \in PassTargets, path \in PassPaths}

PassLists == {<<a, b>> : a \in PassDrones, b \in PassDrones}

\* the defaults, and an anchor_period that makes a search raise
PassParams == {LevelParams, ("anchor_period" :> 0) @@ LevelParams}

InitPass ==
    /\ NoSession
    /\ tick_rate_hz = 1
    /\ budget = 0
    /\ obs = [start |-> Nil, goal |-> Nil]
    /\ algorithm = BanditMHAStar
    /\ world = BlockWorld
    /\ search = [pc |-> "call", given |-> Nil, raised |-> FALSE]
    /\ \E p \in PassParams, ds \in PassLists :
          /\ params = p
          /\ drones = ds

PassCall ==
    /\ search.pc = "call"
    /\ LET r == AlgorithmPlanPaths(algorithm, world, drones, params)
       IN /\ algorithm' = r.alg
          /\ drones' = r.drones
          /\ search' = [pc |-> "done", given |-> drones, raised |-> r.raised]
    /\ UNCHANGED <<world, params, tick, tick_rate_hz, tick_task, handler, sent,
                   budget, obs>>

NextPass == PassCall

SpecPass == InitPass /\ [][NextPass]_vars

(***************************************************************************)
(* SpecSession: one websocket session.  The ws_endpoint coroutine (the     *)
(* handler) and the engine.run task (the ticker) share one event loop: a   *)
(* step of either runs from one await to the next.  The ticker's loop body *)
(* is cut between plan_paths and step_drones, so that whether the handler  *)
(* can run there is decided by the scheduling rule and not by the cut.     *)
(* World() is 1000 m x 1000 m and empty; the model's default world is the  *)
(* empty world of 30 m x 30 m.                                             *)
(***************************************************************************)
\* the most client messages of a session and the most ticks of its tasks
MaxMsgs == 4
MaxTick == 2

DefaultWorld == OpenWorld

SessionWorlds == {OpenWorld, BlockWorld}

\* the second map sets a period of forced anchor pulls of 0
SessionParams == {LevelParams, ("anchor_period" :> 0) @@ LevelParams}

\* a drone hovering over its target at the default cruise altitude, and a
\* drone on the ground two cells from its target
SessionDrones ==
    {<<Drone("d1", Vec3(10, 10, 60), Vec3(10, 10, 0), <<>>)>>,
     <<Drone("d1", Vec3(5, 5, 0), Vec3(25, 5, 0), <<>>)>>}

\* the names a set_algorithm message carries
AlgorithmNames == {"straight_line", "bandit_mha_star", "a_star_grid", ""}

\* the rates a tick_rate message carries
TickRates == {1}

\* a scheduler that may also switch tasks between plan_paths and step_drones
AtAnyPoint(pc) ==
    pc \in {"created", "step", "send", "sleep", "done", "cancelled", "failed"}

\* the ticker is suspended when awaiting at pc: not yet started, in
\* await send_state(...), in await asyncio.sleep(dt), or finished (returned,
\* cancelled, or ended by an exception out of the loop body)
AtSuspension(pc) == pc \in {"created", "send", "sleep", "done", "cancelled", "failed"}

\* every task taken as done
TaskNeverRunning == FALSE

\* tick_task and not tick_task.done()
TaskRunning == tick_task # Nil /\ tick_task.pc \notin {"done", "cancelled", "failed"}

\* the handler runs only while the ticker is suspended
HandlerMayRun == IF tick_task = Nil THEN TRUE ELSE AtSuspension(tick_task.pc)

\* the handler is in await ws.receive_json() and a message is there
Receiving ==
    /\ handler = "recv"
    /\ budget.msgs > 0
    /\ HandlerMayRun

InitSession ==
    /\ world = DefaultWorld
    /\ drones = <<>>
    /\ params = <<>>
    /\ tick = 0
    /\ tick_rate_hz = 20
    /\ algorithm = build_algorithm("straight_line")
    /\ tick_task = Nil
    /\ handler = "recv"
    /\ sent = "meta"
    /\ budget = [msgs |-> MaxMsgs]
    /\ search = Nil
    /\ obs = [msg |-> Nil, halted |-> None, ran |-> FALSE, seen |-> Nil, plan |-> Nil]

\* what every handled message leaves in budget and obs; m is what obs.msg becomes
\* and h what obs.halted becomes
Handled(m, h) ==
    /\ budget' = [budget EXCEPT !.msgs = @ - 1]
    /\ obs' = [obs EXCEPT !.msg = m, !.halted = h]

\* the halting message on record once message type halts a running ticker
HaltedBy(type) == IF TaskRunning THEN type ELSE obs.halted

\* set_world: engine.world = msg.world, engine.tick = 0, a MetaMsg is sent
RecvSetWorld ==
    /\ Receiving
    /\ \E w \in SessionWorlds : world' = w
    /\ tick' = 0
    /\ sent' = "meta"
    /\ Handled(Nil, obs.halted)
    /\ UNCHANGED <<drones, params, tick_rate_hz, algorithm, tick_task, handler, search>>

\* init: engine.world = msg.world
RecvInit ==
    /\ Receiving
    /\ \E w \in SessionWorlds : world' = w
    /\ sent' = None
    /\ Handled(Nil, obs.halted)
    /\ UNCHANGED <<drones, params, tick, tick_rate_hz, algorithm, tick_task, handler,
                   search>>

\* set_algorithm; an empty name fails the test "and msg.algorithm" and no other
\* branch takes the message
RecvSetAlgorithm ==
    /\ Receiving
    /\ \E name \in AlgorithmNames :
          LET built == IF name = "" THEN Nil ELSE build_algorithm(name)
          IN /\ algorithm' = IF name = "" \/ built = KeyError THEN algorithm ELSE built
             /\ sent' = IF name # "" /\ built = KeyError THEN "error" ELSE None
             /\ Handled([type |-> "set_algorithm", name |-> name,
                         kept |-> (algorithm' = algorithm), alg |-> algorithm'],
                        obs.halted)
    /\ UNCHANGED <<world, drones, params, tick, tick_rate_hz, tick_task, handler, search>>

\* set_params: engine.params.update(msg.params)
RecvSetParams ==
    /\ Receiving
    /\ \E p \in SessionParams : params' = p @@ params
    /\ sent' = None
    /\ Handled(Nil, obs.halted)
    /\ UNCHANGED <<world, drones, tick, tick_rate_hz, algorithm, tick_task, handler,
                   search>>

\* set_drones: engine.drones = msg.drones
RecvSetDrones ==
    /\ Receiving
    /\ \E ds \in SessionDrones : drones' = ds
    /\ sent' = None
    /\ Handled(Nil, obs.halted)
    /\ UNCHANGED <<world, params, tick, tick_rate_hz, algorithm, tick_task, handler,
                   search>>

\* tick_rate: engine.tick_rate_hz = msg.tick_rate_hz
RecvTickRate ==
    /\ Receiving
    /\ \E hz \in TickRates : tick_rate_hz' = hz
    /\ sent' = None
    /\ Handled(Nil, obs.halted)
    /\ UNCHANGED <<world, drones, params, tick, algorithm, tick_task, handler, search>>

\* start: a task is created when there is none or the last one is done
RecvStart ==
    /\ Receiving
    /\ tick_task' = IF TaskRunning THEN tick_task
                    ELSE [pc |-> "created", cancel |-> FALSE, hz |-> 0]
    /\ sent' = None
    /\ Handled(Nil, None)
    /\ UNCHANGED <<world, drones, params, tick, tick_rate_hz, algorithm, handler, search>>

\* pause: a running task is cancelled and awaited; tick_task = None follows the
\* await, or at once when no task runs
RecvPause ==
    /\ Receiving
    /\ IF TaskRunning
       THEN /\ tick_task' = [tick_task EXCEPT !.cancel = TRUE]
            /\ handler' = "await_task"
       ELSE /\ tick_task' = Nil
            /\ handler' = "recv"
    /\ sent' = None
    /\ Handled(Nil, HaltedBy("pause"))
    /\ UNCHANGED <<world, drones, params, tick, tick_rate_hz, algorithm, search>>

\* the await of pause returns once the task is done.  A task cancelled before
\* its first step raises CancelledError into the await; suppress(Exception)
\* does not hold it and the handler ends with it.
PauseAwaited ==
    /\ handler = "await_task"
    /\ HandlerMayRun
    /\ tick_task.pc \in {"done", "cancelled"}
    /\ IF tick_task.pc = "done"
       THEN tick_task' = Nil /\ handler' = "recv"
       ELSE tick_task' = tick_task /\ handler' = "crashed"
    /\ UNCHANGED <<world, drones, params, tick, tick_rate_hz, algorithm, sent, budget,
                   search, obs>>

\* reset: engine.tick = 0
RecvReset ==
    /\ Receiving
    /\ tick' = 0
    /\ sent' = None
    /\ Handled(Nil, HaltedBy("reset"))
    /\ UNCHANGED <<world, drones, params, tick_rate_hz, algorithm, tick_task, handler,
                   search>>

\* WebSocketDisconnect out of receive_json: a running task is cancelled and awaited
Disconnect ==
    /\ Receiving
    /\ IF TaskRunning
       THEN /\ tick_task' = [tick_task EXCEPT !.cancel = TRUE]
            /\ handler' = "close_await"
       ELSE /\ tick_task' = tick_task
            /\ handler' = "closed"
    /\ sent' = None
    /\ Handled(Nil, HaltedBy("disconnect"))
    /\ UNCHANGED <<world, drones, params, tick, tick_rate_hz, algorithm, search>>

\* the await of the disconnect branch returns, or raises CancelledError
DisconnectAwaited ==
    /\ handler = "close_await"
    /\ HandlerMayRun
    /\ tick_task.pc \in {"done", "cancelled"}
    /\ handler' = IF tick_task.pc = "done" THEN "closed" ELSE "crashed"
    /\ UNCHANGED <<world, drones, params, tick, tick_rate_hz, algorithm, tick_task, sent,
                   budget, search, obs>>

\* the ticker may take a step: it was not cancelled while suspended
TickerResumes(pcs) ==
    /\ tick_task # Nil
    /\ tick_task.pc \in pcs
    /\ ~tick_task.cancel

\* engine.run from the top of the loop to the return of plan_paths.  run holds
\* only CancelledError: any other exception out of plan_paths ends the task.
TickPlan ==
    /\ TickerResumes({"created", "sleep"})
    /\ tick < MaxTick
    /\ LET p == ("tick" :> tick) @@ params
           r == AlgorithmPlanPaths(algorithm, world, drones, p)
       IN /\ params' = p
          /\ algorithm' = r.alg
          /\ drones' = r.drones
          /\ obs' = [obs EXCEPT
                        !.ran = @ \/ obs.halted # None,
                        !.seen = <<world, r.drones, p, r.alg>>,
                        !.plan = IF algorithm.name # "bandit_mha_star" THEN Nil
                                 ELSE [world |-> world,
                                       cell |-> PGet(p, "grid_cell_m", 20),
                                       inflate |-> PGet(p, "clearance_m", 6),
                                       grid |-> r.alg.grid,
                                       replanned |-> r.replanned]]
          /\ tick_task' = [tick_task EXCEPT
                              !.pc = IF r.raised THEN "failed" ELSE "step",
                              !.hz = tick_rate_hz]
    /\ UNCHANGED <<world, tick, tick_rate_hz, handler, sent, budget, search>>

\* step_drones, self.tick += 1, up to await send_state(...)
TickStep ==
    /\ tick_task # Nil
    /\ tick_task.pc = "step"
    /\ drones' = step_drones(drones, tick_task.hz, PGet(params, "speed", 30))
    /\ tick' = tick + 1
    /\ tick_task' = [tick_task EXCEPT !.pc = "send"]
    /\ obs' = [obs EXCEPT !.ran = @ \/ obs.halted # None, !.seen = Nil]
    /\ UNCHANGED <<world, params, tick_rate_hz, algorithm, handler, sent, budget, search>>

\* send_state returns: the StateMsg is out, the ticker is in asyncio.sleep(dt)
TickSent ==
    /\ TickerResumes({"send"})
    /\ tick_task' = [tick_task EXCEPT !.pc = "sleep"]
    /\ obs' = [obs EXCEPT !.ran = @ \/ obs.halted # None]
    /\ UNCHANGED <<world, drones, params, tick, tick_rate_hz, algorithm, handler, sent,
                   budget, search>>

\* CancelledError at the await the ticker is in: run catches it and returns; a
\* task that never started ends cancelled
TickCancelled ==
    /\ tick_task # Nil
    /\ tick_task.cancel
    /\ tick_task.pc \in {"created", "send", "sleep"}
    /\ tick_task' = [tick_task EXCEPT
                        !.pc = IF @ = "created" THEN "cancelled" ELSE "done",
                        !.cancel = FALSE]
    /\ UNCHANGED <<world, drones, params, tick, tick_rate_hz, algorithm, handler, sent,
                   budget, search, obs>>

NextSession ==
    \/ RecvSetWorld
    \/ RecvInit
    \/ RecvSetAlgorithm
    \/ RecvSetParams
    \/ RecvSetDrones
    \/ RecvTickRate
    \/ RecvStart
    \/ RecvPause
    \/ PauseAwaited
    \/ RecvReset
    \/ Disconnect
    \/ DisconnectAwaited
    \/ TickPlan
    \/ TickStep
    \/ TickSent
    \/ TickCancelled

SpecSession == InitSession /\ [][NextSession]_vars

(***************************************************************************)
(* Properties of one plan (SpecSearch)                                     *)
(***************************************************************************)
\* the cells of the waypoints of a path in a grid
PathCells(grid, path) == [k \in 1..Len(path) |-> from_world(grid, path[k].x, path[k].y)]

\* b is one step from a in the neighbourhood (8-connected iff use8)
OneStep(a, b, use8) ==
    /\ a # b
    /\ Abs(a[1] - b[1]) <= 1
    /\ Abs(a[2] - b[2]) <= 1
    /\ use8 \/ Abs(a[1] - b[1]) + Abs(a[2] - b[2]) = 1

\* consecutive waypoints one step apart, no waypoint in a blocked cell of grid
ConnectedFree(grid, path, use8) ==
    LET cells == PathCells(grid, path)
    IN /\ \A k \in 1..(Len(cells) - 1) : OneStep(cells[k], cells[k + 1], use8)
       /\ \A k \in 1..Len(cells) : ~is_blocked(grid, cells[k])

\* the grid of the current world under the current parameters
WorldGrid == GridBuild(world, PGet(params, "grid_cell_m", 20), PGet(params, "clearance_m", 6))

Use8 == PGet(params, "neighbors8", FALSE)

\* C1 as stated: every returned path is connected in the chosen neighbourhood
\* and none of its waypoints lies in a blocked cell of the current world's grid.
C1_PathConnectedFree_AsStated ==
    search.pc = "done" => ConnectedFree(WorldGrid, search.path, Use8)

\* C1 amended: when the snapped start and target cells are unblocked, the
\* returned path is connected in the chosen neighbourhood and none of its
\* waypoints lies in a blocked cell of the grid the plan consulted.
C1_PathConnectedFree ==
    (/\ search.pc = "done"
     /\ ~is_blocked(search.grid, search.S)
     /\ ~is_blocked(search.grid, search.T))
        => ConnectedFree(search.grid, search.path, Use8)

\* a plan that went round obstacles: goal accepted, four or more waypoints
C1_Witness ==
    /\ search.pc = "done"
    /\ search.exit \in {"anchor_goal", "subopt_goal"}
    /\ Len(search.path) >= 4
    /\ \E i \in DOMAIN search.grid.blocked : search.grid.blocked[i]
    /\ ~is_blocked(search.grid, search.S)

\* the free cells one step from a cell of set
StepFrom(grid, set, use8) ==
    {c \in FreeCells(grid) : \E a \in set : OneStep(a, c, use8)}

\* the cells reachable from set through unblocked cells
RECURSIVE ReachFrom(_, _, _)
ReachFrom(grid, set, use8) ==
    IF StepFrom(grid, set, use8) \subseteq set THEN set
    ELSE ReachFrom(grid, set \cup StepFrom(grid, set, use8), use8)

\* T is reachable from S through unblocked cells, S and T included
Reachable(grid, S, T, use8) ==
    /\ ~is_blocked(grid, S)
    /\ T \in ReachFrom(grid, {S}, use8)

\* the premises of completeness on the plan st
CompletePremise(st) ==
    /\ Reachable(st.grid, st.S, st.T, Use8)
    /\ st.anchor_period >= 1
    /\ st.max_exp > Cardinality(FreeCells(st.grid))

\* C2: when T is reachable from S through unblocked cells, anchor_period >= 1
\* and max_expansions exceeds the number of free cells, the plan pops T (goal_node
\* is T, a field only a pop writes) and returns a path from S's cell to T's cell;
\* with S = T the path is the single cell.
C2_Complete ==
    (search.pc = "done" /\ CompletePremise(search)) =>
        LET cells == PathCells(search.grid, search.path)
        IN /\ search.S # search.T => search.T = search.goal_node
           /\ Len(cells) >= 1
           /\ cells[1] = search.S
           /\ cells[Len(cells)] = search.T

\* a reachable goal behind obstacles, popped from a hint queue
C2_Witness ==
    /\ search.pc = "done"
    /\ CompletePremise(search)
    /\ search.T = search.goal_node
    /\ search.q_idx # 0
    /\ \E i \in DOMAIN search.grid.blocked : search.grid.blocked[i]
    /\ Cardinality(search.closed) >= 3

\* the plan has ended: it returned a path or raised
PlanEnded == search.pc \in {"done", "raised"}

\* the cell of the goal point the plan was given
GoalCell == from_world(search.grid, obs.goal.x, obs.goal.y)

\* C12: when the snapped start cell and the snapped target cell are both still
\* blocked (the spiral found no free cell for either), the plan does not raise
\* and returns the single waypoint at the centre of the goal's cell.
C12_DegenerateWhenBothBlocked ==
    (/\ PlanEnded
     /\ is_blocked(search.grid, search.S)
     /\ is_blocked(search.grid, search.T))
        => /\ search.pc = "done"
           /\ search.path = <<to_world(search.grid, GoalCell, search.z)>>

\* both cells blocked and different: the loop ran, expanded the start cell,
\* found every open set exhausted and returned the degenerate path
C12_Witness ==
    /\ search.pc = "done"
    /\ is_blocked(search.grid, search.S)
    /\ is_blocked(search.grid, search.T)
    /\ search.S # search.T
    /\ search.exit = "empty"
    /\ search.S \in search.closed
    /\ search.expansions >= 2

\* path runs along recorded parents from S's cell to T's cell
AlongParents(st, path) ==
    LET cells == PathCells(st.grid, path)
    IN /\ Len(cells) >= 2
       /\ cells[1] = st.S
       /\ cells[Len(cells)] = st.T
       /\ \A k \in 1..(Len(cells) - 1) :
             /\ cells[k + 1] \in DOMAIN st.parent
             /\ st.parent[cells[k + 1]] = cells[k]

\* C13: the loop runs at most max_expansions iterations and closes at most that
\* many cells; the plan does not raise; when the budget ends the loop and the
\* goal was never popped, the path runs along the recorded parents from S to T
\* if T has a parent and is the single waypoint at the centre of T otherwise.
C13_Budget ==
    /\ search.expansions <= Max(0, search.max_exp)
    /\ Cardinality(search.closed) <= search.expansions
    /\ search.pc # "raised"
    /\ (search.pc = "done" /\ search.exit = "budget" /\ search.goal_node = Nil) =>
          IF search.T \in DOMAIN search.parent
          THEN AlongParents(search, search.path)
          ELSE search.path = <<to_world(search.grid, search.T, search.z)>>

\* the budget ran out with T discovered but not popped: the path of three or
\* more waypoints follows T's parents
C13_Witness ==
    /\ search.pc = "done"
    /\ search.exit = "budget"
    /\ search.goal_node = Nil
    /\ search.T \in DOMAIN search.parent
    /\ search.expansions = search.max_exp
    /\ Len(search.path) >= 3

\* the traversal time of a sequence of cells under the plan's edge-time model
RECURSIVE CellsTime(_, _, _)
CellsTime(st, cells, k) ==
    IF k >= Len(cells) THEN 0
    ELSE EdgeTime(st, cells[k], cells[k + 1],
                  <<cells[k + 1][1] - cells[k][1], cells[k + 1][2] - cells[k][2]>>)
            + CellsTime(st, cells, k + 1)

\* the offsets of the plan's neighbourhood
Offsets(st) == {st.neigh[i] : i \in 1..Len(st.neigh)}

\* one round of relaxation of the times d over the free cells
RelaxRound(st, d) ==
    [c \in DOMAIN d |->
        LET via == {d[<<c[1] - off[1], c[2] - off[2]>>]
                        + EdgeTime(st, <<c[1] - off[1], c[2] - off[2]>>, c, off) :
                    off \in {o \in Offsets(st) :
                                <<c[1] - o[1], c[2] - o[2]>> \in DOMAIN d}}
            all == via \cup {d[c]}
        IN CHOOSE t \in all : \A o \in all : t <= o]

\* the least traversal times from S to every free cell: relaxation to a fixpoint
RECURSIVE LeastTimes(_, _)
LeastTimes(st, d) ==
    IF RelaxRound(st, d) = d THEN d ELSE LeastTimes(st, RelaxRound(st, d))

\* the minimum traversal time from S to T over free cells, FloatInf if none
MinTime(st) ==
    LET cells == FreeCells(st.grid) \cup {st.S}
        d0 == [c \in cells |-> IF c = st.S THEN 0 ELSE FloatInf]
    IN IF st.T \in cells THEN LeastTimes(st, d0)[st.T] ELSE FloatInf

\* the plan ended by accepting the goal: an anchor pop of T or the early-out
GoalAccepted == search.pc = "done" /\ search.exit \in {"anchor_goal", "subopt_goal"}

\* C14 as stated: when the goal is accepted, the traversal time of the returned
\* path is at most accept_suboptimal_w times the minimum traversal time from S
\* to T over free cells.
C14_BoundedSuboptimal ==
    GoalAccepted =>
        1000 * CellsTime(search, PathCells(search.grid, search.path), 1)
            <= search.subopt_w * MinTime(search)

\* the point half a cell past the low corner of cell c, alt metres up
CentreAt(grid, c, alt) ==
    [x |-> 100 * grid.cell * c[1] + 50 * grid.cell,
     y |-> 100 * grid.cell * c[2] + 50 * grid.cell,
     z |-> 100 * alt]

CruiseAlt == PGet(params, "cruise_alt_m", 60)

\* the goal was reached: T was popped, or S and T are one cell
GoalReached == search.goal_node # Nil \/ search.S = search.T

\* C15 as stated: every returned path is non-empty, its last waypoint is the
\* centre, at the cruise altitude, of the cell the target lies in, and its first
\* waypoint is the centre of the start cell when the goal was reached.
C15_PathEndpoints_AsStated ==
    search.pc = "done" =>
        /\ Len(search.path) >= 1
        /\ search.path[Len(search.path)] = CentreAt(search.grid, GoalCell, CruiseAlt)
        /\ GoalReached => search.path[1] = CentreAt(search.grid, search.S, CruiseAlt)

\* C15 amended: every returned path is non-empty; its last waypoint is the
\* centre, at the cruise altitude, of T, which is the target's cell when that
\* cell is unblocked and otherwise the cell the nearest-free spiral returns for
\* it; when the goal was reached the first waypoint is the centre of S.
C15_PathEndpoints ==
    search.pc = "done" =>
        /\ Len(search.path) >= 1
        /\ search.path[Len(search.path)] = CentreAt(search.grid, search.T, CruiseAlt)
        /\ ~is_blocked(search.grid, GoalCell) => search.T = GoalCell
        /\ is_blocked(search.grid, GoalCell) =>
              search.T = NearestFreeFrom(search.grid, GoalCell, 1)
        /\ GoalReached => search.path[1] = CentreAt(search.grid, search.S, CruiseAlt)

\* a target inside a building: T is another cell than the target's, the goal
\* was popped and the path has three waypoints or more
C15_Witness ==
    /\ search.pc = "done"
    /\ is_blocked(search.grid, GoalCell)
    /\ search.T # GoalCell
    /\ search.T = search.goal_node
    /\ Len(search.path) >= 3

\* the while loop has ended (it ran: S and T are two cells)
LoopEnded == search.pc \in {"reconstruct", "done"} /\ search.exit # "same_cell"

\* no open set holds an entry that _pop_valid would return
NoValidEntry(st) ==
    \A k \in 0..3 : \A e \in st.open[k + 1] : StaleEntry(st, k, e)

\* C17: the loop ends only (a) with max_expansions iterations run, (b) with no
\* valid entry left in any open set, every discovered cell being closed, or
\* (c) with T popped and accepted: from the anchor queue, or from a hint queue
\* with g_cost[T] within accept_suboptimal_w times the anchor heuristic of S.
C17_LoopEndsOnly ==
    LoopEnded =>
        \/ /\ search.exit = "budget"
           /\ search.expansions = Max(0, search.max_exp)
        \/ /\ search.exit = "empty"
           /\ NoValidEntry(search)
           /\ DOMAIN search.g_cost \subseteq search.closed
        \/ /\ search.exit = "anchor_goal"
           /\ search.T = search.node
           /\ search.q_idx = 0
        \/ /\ search.exit = "subopt_goal"
           /\ search.T = search.node
           /\ search.q_idx # 0
           /\ AcceptSuboptimal(search, search.T)

\* the chosen queue yielded nothing while other open sets still hold entries,
\* all of them of closed cells, after five cells or more were expanded
C17_Witness ==
    /\ LoopEnded
    /\ search.exit = "empty"
    /\ \E k \in 0..3 : k # search.q_idx /\ search.open[k + 1] # {}
    /\ Cardinality(search.closed) >= 5

\* the walk over parent from cur reaches S within the cells that have a parent
WalkReachesS(st, cur) ==
    LET chain == Chain(st.parent, st.S, cur, Cardinality(DOMAIN st.parent) + 1)
    IN \A k \in 1..Len(chain) : chain[k] # Nil

\* from every cell that has a parent the walk reaches S, and the iterations run
\* are at most the cells that can be discovered (the free ones and S) and one
\* more, whatever the budget
WalkAndCount ==
    search.pc # "call" =>
    /\ \A v \in DOMAIN search.parent : WalkReachesS(search, v)
    /\ search.expansions <= Cardinality(FreeCells(search.grid) \cup {search.S}) + 1
    /\ search.expansions <= Cardinality(search.closed) + 1

\* an iteration ends the loop or closes exactly one cell that was not closed
IterationAdvances ==
    search.pc = "loop" =>
        \/ search'.pc # "loop"
        \/ /\ search.closed \subseteq search'.closed
           /\ Cardinality(search'.closed) = Cardinality(search.closed) + 1

\* C18: every plan returns: each iteration ends the loop or closes one new cell,
\* so the iterations are bounded by the free cells even under a budget that is
\* never reached, the walk over parent reaches S, and the plan ends with a path.
C18_Terminates ==
    /\ []WalkAndCount
    /\ [][IterationAdvances]_vars
    /\ <>(search.pc = "done" /\ search.path # <<>>)

\* a plan under the budget of 2500, never reached, that expanded five cells or
\* more and returned a path walked back over four parents or more
C18_Witness ==
    /\ search.pc = "done"
    /\ search.max_exp = 2500
    /\ search.expansions >= 5
    /\ Len(search.path) >= 5

\* the entry whose pop gave the node of the iteration search -> search'
PoppedEntry == pop_valid(search, search'.q_idx, search.open[search'.q_idx + 1])

\* the iteration returned a node whose entry is sound: the node was not closed,
\* the key is the queue's f of the node under the current g_cost, and no entry
\* of the node was pushed on that heap after it (none comes from a later,
\* lower g_cost)
SoundPop ==
    (search.pc = "loop" /\ search'.node # Nil) =>
        LET pv == PoppedEntry
            q == search'.q_idx
            n == pv.node
        IN /\ n = search'.node
           /\ pv.entry[3] = n
           /\ n \notin search.closed
           /\ pv.entry[1] = f_k(search, q, n)
           /\ \A e \in search.open[q + 1] : e[3] = n => e[2] <= pv.entry[2]

\* C19: a node is returned for expansion by the pop of an entry only when it is
\* not closed and the entry's key equals the current f of its queue for the
\* node; an entry pushed under an older, larger g_cost of the node is never the
\* one returned.
C19_LazyPopSound == [][SoundPop]_vars

\* a cell was expanded by its latest entry while an older entry of it, with a
\* larger key from a larger g_cost, stays behind on the heap of the chosen queue
C19_Witness ==
    /\ search.pc \in {"loop", "reconstruct"}
    /\ search.node # Nil
    /\ search.node \in search.closed
    /\ \E e \in search.open[search.q_idx + 1] :
          /\ e[3] = search.node
          /\ e[1] > f_k(search, search.q_idx, search.node)

\* the cells written by the step search -> search': a write of g_cost[v] comes
\* with a write of parent[v] and four pushes of v
Written ==
    {e[3] : e \in {o \in search'.open[1] : o[2] > search.push_counter}}
        \cup {v \in DOMAIN search'.parent :
                 v \notin DOMAIN search.parent \/ search'.parent[v] # search.parent[v]}
        \cup {v \in DOMAIN search'.g_cost :
                 search'.g_cost[v] # GGet(search.g_cost, v)}

\* no g_cost is forgotten, and a written cell has a strictly lower g_cost
GLowers ==
    /\ DOMAIN search.g_cost \subseteq DOMAIN search'.g_cost
    /\ \A v \in Written : search'.g_cost[v] < GGet(search.g_cost, v)

\* S keeps g_cost 0 and has no parent
SourceKept == search.g_cost[search.S] = 0 /\ search.S \notin DOMAIN search.parent

\* C20: within one plan every write to g_cost[v] strictly lowers it (a first
\* write lowers it from infinity), g_cost[S] stays 0 and S never gets a parent.
C20_MonotoneG == []SourceKept /\ [][GLowers]_vars

\* g_cost of a cell was written twice, the second time lower: the anchor heap
\* holds two of its entries, the later with the smaller key; and a neighbour of
\* S was expanded, so the edge back to S was tried
C20_Witness ==
    /\ search.pc = "loop"
    /\ \E a \in search.open[1] : \E b \in search.open[1] :
          a[3] = b[3] /\ a[2] < b[2] /\ a[1] > b[1]
    /\ \E i \in 1..Len(search.neigh) :
          <<search.S[1] + search.neigh[i][1], search.S[2] + search.neigh[i][2]>>
              \in search.closed

\* C21: parent is a tree rooted at S: S has no parent, every other cell with a
\* g_cost has one, the parent of a cell has a g_cost that is strictly lower, and
\* the walk over parent from any cell reaches S (so there is no cycle).
C21_ParentTree ==
    /\ search.S \notin DOMAIN search.parent
    /\ DOMAIN search.parent = DOMAIN search.g_cost \ {search.S}
    /\ \A v \in DOMAIN search.parent :
          /\ search.parent[v] \in DOMAIN search.g_cost
          /\ search.g_cost[search.parent[v]] < search.g_cost[v]
          /\ WalkReachesS(search, v)

\* a tree four parents deep in which a cell was given a second, better parent:
\* the anchor heap holds two entries of it
C21_Witness ==
    /\ \E v \in DOMAIN search.parent :
          Len(Chain(search.parent, search.S, v,
                    Cardinality(DOMAIN search.parent) + 1)) >= 5
    /\ \E a \in search.open[1] : \E b \in search.open[1] :
          a[3] = b[3] /\ a[2] < b[2] /\ a[3] \in DOMAIN search.parent

\* a step keeps every closed cell closed with its g_cost and its parent, and the
\* cell it expands was not closed
ClosedKept ==
    /\ \A v \in search.closed :
          /\ v \in search'.closed
          /\ search'.g_cost[v] = search.g_cost[v]
          /\ (v \in DOMAIN search.parent => search'.parent[v] = search.parent[v])
          /\ (v \notin DOMAIN search.parent => v \notin DOMAIN search'.parent)
    /\ search'.closed # search.closed => search'.node \notin search.closed

\* C22: a closed cell stays closed, is not expanded a second time, and keeps its
\* g_cost and its parent for the rest of the plan.
C22_ClosedCommitted == [][ClosedKept]_vars

\* the open frontier: the cells discovered and not closed
Frontier(st) == DOMAIN st.g_cost \ st.closed

\* v has on the heap of queue k an entry whose key is its current f_k
HasFreshEntry(st, k, v) ==
    \E e \in st.open[k + 1] : e[3] = v /\ e[1] = f_k(st, k, v)

\* between two iterations every cell of the frontier has a fresh entry on each
\* of the four heaps
OpenSetsAgree ==
    search.pc = "loop" =>
        \A v \in Frontier(search) : \A k \in 0..3 : HasFreshEntry(search, k, v)

\* a step that writes g_cost[v] leaves on each heap an entry of v pushed by that
\* step, with the f_k of the new g_cost as its key
PushedToAll ==
    \A v \in Written : \A k \in 0..3 :
        \E e \in search'.open[k + 1] :
            /\ e[3] = v
            /\ e[2] > search.push_counter
            /\ e[1] = f_k(search', k, v)

\* C23: every improvement of g_cost[v] pushes v on all four heaps with its fresh
\* f_k, and while the search runs (between two iterations of its loop) the four
\* heaps agree on the frontier: each discovered cell that is not closed has on
\* each heap an entry whose key is its current f_k.
C23_OpenSetsAgree == []OpenSetsAgree /\ [][PushedToAll]_vars

\* a frontier of three cells or more, one of them improved since it was
\* discovered, on heaps that no longer hold the same number of entries
C23_Witness ==
    /\ search.pc = "loop"
    /\ Cardinality(Frontier(search)) >= 3
    /\ \E a \in search.open[1] : \E b \in search.open[1] :
          a[3] = b[3] /\ a[2] < b[2] /\ a[3] \in Frontier(search)
    /\ Cardinality(search.open[1]) # Cardinality(search.open[2])

\* the iteration about to run is a forced one and the anchor heap holds an entry
AnchorDue(st) ==
    /\ st.pc = "loop"
    /\ (st.expansions + 1) % st.anchor_period = 0
    /\ st.open[1] # {}

\* a forced iteration pops from queue 0
ForcedAnchorPops == AnchorDue(search) => search'.q_idx = 0

\* with anchor_period = 2, of two iterations in a row that both found an entry
\* on the anchor heap, one popped from queue 0
EverySecondAnchor ==
    (/\ search.pc = "loop"
     /\ search.anchor_period = 2
     /\ search.expansions >= 1
     /\ obs.anchor_open
     /\ search.open[1] # {}) => (search.q_idx = 0 \/ search'.q_idx = 0)

\* C24: whenever the index of the iteration is a multiple of anchor_period and
\* the anchor heap is not empty, queue 0 is the one popped, whatever the pulls
\* and rewards; so with anchor_period = 2 and the anchor heap never empty, one
\* of any two iterations in a row pops from queue 0.
C24_ForcedAnchor == [][ForcedAnchorPops /\ EverySecondAnchor]_vars

\* with anchor_period = 2, a fourth or later iteration popped from queue 0 where
\* the scheduler left to its scores would have picked a hint queue
C24_Witness ==
    /\ search.anchor_period = 2
    /\ search.expansions >= 4
    /\ search.expansions % 2 = 0
    /\ search.q_idx = 0
    /\ obs.anchor_open
    /\ obs.free_choice \in 1..3

\* accept_suboptimal_w * h_anchor(S, T), ms
SuboptBound(st) ==
    RoundDiv(st.subopt_w * h_euclid_time(st.S, st.T, st.v_max, st.grid), 1000)

\* the step ended the search where it stood: nothing closed, nothing written
EndedAtOnce ==
    /\ search'.pc = "reconstruct"
    /\ search'.goal_node = search.T
    /\ search'.closed = search.closed
    /\ search'.g_cost = search.g_cost

\* the iteration that popped T: from queue 0 it ends the search at once; from a
\* hint queue it ends it at once exactly when g_cost[T] is within the bound, and
\* otherwise closes and expands T and goes on (unless the budget is spent)
GoalPop ==
    (search.pc = "loop" /\ search'.node = search.T) =>
        /\ search'.q_idx = 0 => EndedAtOnce /\ search'.exit = "anchor_goal"
        /\ (search'.q_idx # 0 /\ search.g_cost[search.T] <= SuboptBound(search))
              => EndedAtOnce /\ search'.exit = "subopt_goal"
        /\ (search'.q_idx # 0 /\ search.g_cost[search.T] > SuboptBound(search))
              => /\ search.T \in search'.closed \ search.closed
                 /\ search'.pulls[search'.q_idx + 1] = search.pulls[search'.q_idx + 1] + 1
                 /\ search'.goal_node = search.T
                 /\ search'.pc = "loop" \/ search'.exit = "budget"

\* a plan that ended by the early-out has g_cost[T] within the bound
EarlyOutBound ==
    search.exit = "subopt_goal" =>
        /\ search.node = search.T
        /\ search.q_idx \in 1..3
        /\ search.g_cost[search.T] <= SuboptBound(search)

\* C26: T popped from queue 0 ends the search at once; T popped from a hint queue
\* ends it at once only if g_cost[T] <= accept_suboptimal_w * h_anchor(S, T), and
\* otherwise T is closed and expanded and the search goes on; so a plan ended by
\* the early-out has g_cost[T] within that bound.
C26_GoalAcceptance == []EarlyOutBound /\ [][GoalPop]_vars

\* T was popped from a hint queue with a g_cost above the bound, was closed, and
\* the search went on
C26_Witness ==
    /\ search.pc = "loop"
    /\ search.node = search.T
    /\ search.q_idx \in 1..3
    /\ search.T \in search.closed
    /\ search.g_cost[search.T] > SuboptBound(search)

(***************************************************************************)
(* Properties of _nearest_free (SpecNearestFree)                           *)
(***************************************************************************)
\* the ring of b around a
Chebyshev(a, b) == Max(Abs(a[1] - b[1]), Abs(a[2] - b[2]))

\* the free cells within n rings of g0
FreeWithin(grid, g0, n) == {c \in FreeCells(grid) : Chebyshev(c, g0) <= n}

\* C27: for a blocked cell with a free cell within 50 rings the call returns a
\* free cell on the least ring that holds one; it returns the cell given only
\* when no free cell lies within 50 rings; a free cell is returned as it is.
C27_NearestFree ==
    search.pc = "returned" =>
        LET grid == search.grid
            g0 == search.g0
            near == FreeWithin(grid, g0, 50)
        IN /\ ~is_blocked(grid, g0) => search.found = g0
           /\ (is_blocked(grid, g0) /\ near # {}) =>
                 /\ search.found \in near
                 /\ \A c \in near : Chebyshev(search.found, g0) <= Chebyshev(c, g0)
           /\ (is_blocked(grid, g0) /\ search.found = g0) => near = {}

(***************************************************************************)
(* Properties of the grid cache (SpecGrid)                                 *)
(***************************************************************************)
BlockedCells(grid) == GridCells(grid) \ FreeCells(grid)

\* the L1 distance in cells between two cells
Manhattan(a, b) == Abs(a[1] - b[1]) + Abs(a[2] - b[2])

\* the L1 distance from c to the nearest blocked cell; INF with none blocked
TrueL1(grid, c) ==
    LET ds == {Manhattan(c, b) : b \in BlockedCells(grid)}
    IN IF ds = {} THEN DistInf ELSE CHOOSE m \in ds : \A n \in ds : m <= n

\* C28: after build, clearance_m[c] / cell is for every cell c the L1 distance
\* in cells from c to the nearest blocked cell, 0 on a blocked cell (and INF,
\* the value the passes start from, on a grid with no blocked cell).
C28_ClearanceExact ==
    search.pc = "built" =>
        \A c \in GridCells(search.grid) :
            search.grid.dist[idx(search.grid, c)] = TrueL1(search.grid, c)

\* a built grid with a cell three cells away from the nearest blocked cell, all
\* blocked cells lying after it in the scan order
C28_Witness ==
    /\ search.pc = "built"
    /\ \E c \in FreeCells(search.grid) :
          /\ search.grid.dist[idx(search.grid, c)] = 3
          /\ \A b \in BlockedCells(search.grid) :
                idx(search.grid, b) > idx(search.grid, c)

\* the open intervals (lo, hi) and (lo2, hi2) have a point in common; the ends
\* are even integers, so a common point can be taken an integer
IntervalsMeet(lo, hi, lo2, hi2) ==
    \E p \in (lo + 1)..(hi - 1) : lo2 < p /\ p < hi2

\* the square of cell c and the footprint of b grown by inflate on every side
\* share a point of the plane inside both; coordinates in quarters of a metre
SquareMeetsFootprint(b, inflate, c, cell) ==
    /\ IntervalsMeet(4 * c[1] * cell, 4 * (c[1] + 1) * cell,
                     4 * b.cx - 2 * (b.sx + 2 * inflate),
                     4 * b.cx + 2 * (b.sx + 2 * inflate))
    /\ IntervalsMeet(4 * c[2] * cell, 4 * (c[2] + 1) * cell,
                     4 * b.cy - 2 * (b.sy + 2 * inflate),
                     4 * b.cy + 2 * (b.sy + 2 * inflate))

\* C29: after build a cell of the grid is blocked if and only if its square
\* overlaps the footprint of an obstacle grown by inflate on every side.
C29_BlockedContainment ==
    search.pc = "built" =>
        \A c \in GridCells(search.grid) :
            is_blocked(search.grid, c) <=>
                \E k \in 1..Len(world.obstacles) :
                    SquareMeetsFootprint(world.obstacles[k].b, search.inflate, c,
                                         search.cell)

\* a built grid with a blocked cell, and with a free cell that the footprint of
\* an obstacle reaches only along the cell's left edge, in the rows it covers
C29_Witness ==
    /\ search.pc = "built"
    /\ BlockedCells(search.grid) # {}
    /\ \E k \in 1..Len(world.obstacles), c \in FreeCells(search.grid) :
          LET b == world.obstacles[k].b
          IN /\ 2 * b.cx + b.sx + 2 * search.inflate = 2 * c[1] * search.cell
             /\ IntervalsMeet(4 * c[2] * search.cell, 4 * (c[2] + 1) * search.cell,
                              4 * b.cy - 2 * (b.sy + 2 * search.inflate),
                              4 * b.cy + 2 * (b.sy + 2 * search.inflate))

\* the coordinates outside [0, w) x [0, h)
Outside(grid, g) == g[1] < 0 \/ g[2] < 0 \/ g[1] >= grid.w \/ g[2] >= grid.h

\* is_blocked has answered true if it was asked for a coordinate outside
OutsideIsBlocked ==
    (search.g # Nil /\ Outside(search.grid, search.g)) => search.answer

\* clearance_m is 0 on the blocked cells and on no other cell
ZeroOnBlockedOnly(grid) ==
    \A c \in GridCells(grid) : clearance_m(grid, c) = 0 <=> is_blocked(grid, c)

\* C30: for every grid built by build or by build_fallback, is_blocked is true
\* for every coordinate outside [0,w) x [0,h), and clearance_m[c] = 0 if and
\* only if cell c is blocked.
C30_GridInvariants ==
    search.pc \in {"built", "fallback"} =>
        OutsideIsBlocked /\ ZeroOnBlockedOnly(search.grid)

\* C30 as the code has it: is_blocked is true outside the grid for both kinds
\* of grid; clearance_m is 0 exactly on the blocked cells of a grid built by
\* build, and 2 * cell on every cell, blocked or free, of a grid built by
\* build_fallback.
C30_GridInvariantsByKind ==
    /\ search.pc \in {"built", "fallback"} => OutsideIsBlocked
    /\ search.pc = "built" => ZeroOnBlockedOnly(search.grid)
    /\ search.pc = "fallback" =>
          \A c \in GridCells(search.grid) :
              clearance_m(search.grid, c) = 2 * search.grid.cell

\* a grid of build_fallback with a blocked cell, asked for a coordinate outside
C30_Witness ==
    /\ search.pc = "fallback"
    /\ BlockedCells(search.grid) # {}
    /\ search.g # Nil
    /\ Outside(search.grid, search.g)
    /\ search.answer

(***************************************************************************)
(* SpecLoop: the engine loop on one drone with the bandit planner, a step  *)
(* one iteration of engine.run from sleep to sleep, with reset and         *)
(* set_world messages handled between iterations.  obs counts the          *)
(* iterations since the drone was last replanned and keeps the positions   *)
(* at which it was replanned short of its target.                          *)
(***************************************************************************)
\* the most iterations of the loop and the most messages between them
MaxLoopTick == 200
MaxLoopMsgs == 1

\* speed in m/s and tick rate in Hz: 1.5 m, 0.3 m, 0.05 m and 10 m a tick
LoopRates == {<<30, 20>>, <<6, 20>>, <<1, 20>>, <<10, 1>>}

LoopDrones == <<Drone("d1", Vec3(5, 5, 0), Vec3(25, 25, 0), <<>>)>>

\* the drone is at the centre of the cell of its target
Arrived ==
    LET d == drones[1]
        T == from_world(algorithm.grid, d.target.x, d.target.y)
    IN /\ algorithm.grid # Nil
       /\ d.pos = to_world(algorithm.grid, T, PGet(params, "cruise_alt_m", 60))

InitLoop ==
    /\ world = BlockWorld
    /\ drones = LoopDrones
    /\ algorithm = BanditMHAStar
    /\ tick = 0
    /\ handler = "recv"
    /\ sent = None
    /\ search = Nil
    /\ budget = [msgs |-> MaxLoopMsgs]
    /\ obs = [since |-> 0, marks |-> {}, back |-> FALSE]
    /\ \E rate \in LoopRates :
          /\ params = ("speed" :> rate[1]) @@ LevelParams
          /\ tick_rate_hz = rate[2]
          /\ tick_task = [pc |-> "sleep", cancel |-> FALSE, hz |-> rate[2]]

\* one iteration of engine.run: params["tick"] = tick, plan_paths, step_drones,
\* tick += 1, send_state, sleep
LoopTick ==
    /\ tick < MaxLoopTick
    /\ LET p == ("tick" :> tick) @@ params
       IN \E r \in {AlgorithmPlanPaths(algorithm, world, drones, p)} :
             /\ ~r.raised
             /\ params' = p
             /\ algorithm' = r.alg
             /\ drones' = step_drones(r.drones, tick_rate_hz, PGet(p, "speed", 30))
             /\ obs' = [since |-> IF 1 \in r.replanned THEN 0 ELSE obs.since + 1,
                        marks |-> IF 1 \in r.replanned /\ ~Arrived
                                  THEN obs.marks \cup {drones[1].pos} ELSE obs.marks,
                        back |-> \/ obs.back
                                 \/ /\ 1 \in r.replanned
                                    /\ ~Arrived
                                    /\ drones[1].pos \in obs.marks]
    /\ tick' = tick + 1
    /\ sent' = "state"
    /\ UNCHANGED <<world, tick_rate_hz, tick_task, handler, budget, search>>

\* reset: engine.tick = 0
LoopReset ==
    /\ budget.msgs > 0
    /\ tick' = 0
    /\ sent' = None
    /\ budget' = [budget EXCEPT !.msgs = @ - 1]
    /\ UNCHANGED <<world, drones, params, tick_rate_hz, algorithm, tick_task, handler,
                   search, obs>>

\* set_world with the world the engine has: engine.world = msg.world,
\* engine.tick = 0, a MetaMsg is sent
LoopSetWorld ==
    /\ budget.msgs > 0
    /\ world' = BlockWorld
    /\ tick' = 0
    /\ sent' = "meta"
    /\ budget' = [budget EXCEPT !.msgs = @ - 1]
    /\ UNCHANGED <<drones, params, tick_rate_hz, algorithm, tick_task, handler, search,
                   obs>>

NextLoop == LoopTick \/ LoopReset \/ LoopSetWorld

SpecLoop == InitLoop /\ [][NextLoop]_vars

(***************************************************************************)
(* Properties of the engine loop (SpecLoop)                                *)
(***************************************************************************)
\* C34: while the ticking task runs, a drone whose target is set and unchanged
\* is replanned at least once in every window of replan_every consecutive
\* ticks, also after a reset or a set_world has set the tick back to 0.
C34_ReplanFreshness == obs.since < replan_every

\* C35: for every positive speed and tick rate the drone, whose target cell is
\* free and reachable from its start cell, reaches the centre of the target
\* cell, and replanning never keeps it in a cell.  From a replan on the loop is
\* a function of the drone's position, so a drone that arrives is never
\* replanned twice at one position short of its target.
C35_Arrives == ~obs.back

(***************************************************************************)
(* Properties of the rebuild (SpecRebuild)                                 *)
(***************************************************************************)
\* the cells of the grid that build gives for the world and the cell side
RequestedCells(w, cell_cm) ==
    Max(1, (100 * w.size[1]) \div cell_cm) * Max(1, (100 * w.size[2]) \div cell_cm)

\* C31: when the requested grid would exceed 300,000 cells or the world has
\* more than 5,000 obstacles, the grid is built with cell = max(cell, 24) by
\* build, by build_fallback only if build raises, and the call does not raise.
C31_LargeGridDegrades ==
    (/\ search.pc = "done"
     /\ \/ RequestedCells(world, search.cell_cm) > MaxGridCells
        \/ NumObstacles(world) > MaxGridObstacles) =>
        /\ search.call.cell_cm = Max(search.cell_cm, 100 * CoarseCell)
        /\ search.call.method = "build_fallback" <=> search.build_raises
        /\ ~search.call.raised

(***************************************************************************)
(* Properties of the scheduler (SpecScheduler)                             *)
(***************************************************************************)
\* the queues whose heap holds an entry, and those of them never pulled
Avail(st) == {i \in 0..3 : st.open[i + 1] # {}}
Cold(st) == {i \in Avail(st) : st.pulls[i + 1] = 0}

\* the call was not forced to the anchor: force_anchor false or anchor heap empty
NotForced == search.pc = "chosen" /\ ~(obs.force /\ search.open[1] # {})

\* the queues the call computes a UCB score for: all of avail, once no return
\* came before the scoring loop
Scored ==
    IF NotForced /\ Avail(search) # {} /\ Cold(search) = {} THEN Avail(search)
    ELSE {}

\* C25: a call that is not forced to the anchor returns a queue whose heap is
\* not empty when there is one and queue 0 when there is none; when a non-empty
\* queue was never pulled it returns the lowest such queue; and every queue a
\* score is computed for has pulls >= 1, so the division is defined.
C25_QueueSelection ==
    /\ NotForced =>
          /\ (Avail(search) # {} => obs.picked \in Avail(search))
          /\ (Avail(search) = {} => obs.picked = 0)
          /\ (Cold(search) # {} =>
                 obs.picked \in Cold(search)
                 /\ \A j \in Cold(search) : obs.picked <= j)
    /\ \A i \in Scored : search.pulls[i + 1] >= 1

\* a call, asked for the anchor whose heap is empty, that passed over queue 1
\* (pulled before) and returned queue 2, the first of two never pulled
C25_Witness ==
    /\ NotForced
    /\ obs.force
    /\ search.pulls[2] > 0
    /\ Cold(search) = {2, 3}
    /\ obs.picked = 2

(***************************************************************************)
(* Properties of one plain A* plan (SpecAStar)                             *)
(***************************************************************************)
\* the number of 4-adjacent steps from a cell of set to g through unblocked
\* cells, breadth first; d is the distance of set's cells; -1 when there is none
RECURSIVE BfsFrom(_, _, _, _)
BfsFrom(grid, seen, g, d) ==
    IF g \in seen THEN d
    ELSE IF StepFrom(grid, seen, FALSE) \subseteq seen THEN -1
    ELSE BfsFrom(grid, seen \cup StepFrom(grid, seen, FALSE), g, d + 1)

\* the case C16 speaks of: no diagonal moves and a free start cell
AStarCase ==
    /\ search.pc = "done"
    /\ Len(search.nbrs) = 4
    /\ ~is_blocked(search.grid, search.s)

\* C16: AStarGrid._plan_one with allow_diagonal = false and a free start cell
\* returns, when the goal cell g is reachable through unblocked cells, a path of
\* consecutive 4-adjacent unblocked cells from the start cell to g whose number
\* of steps is the breadth-first distance; when g is not reachable it returns
\* the single waypoint at the goal point.
C16_AStarShortest ==
    AStarCase =>
        LET cells == PathCells(search.grid, search.path)
            bfs == BfsFrom(search.grid, {search.s}, search.g, 0)
        IN IF bfs >= 0
           THEN /\ cells[1] = search.s
                /\ cells[Len(cells)] = search.g
                /\ ConnectedFree(search.grid, search.path, FALSE)
                /\ \A k \in 1..Len(cells) :
                      search.path[k] = CentreAt(search.grid, cells[k], search.z)
                /\ Len(cells) - 1 = bfs
           ELSE search.path = <<[x |-> obs.goal.x, y |-> obs.goal.y,
                                 z |-> 100 * search.z]>>

\* a shortest path that goes round a wall: more steps than the Manhattan distance
C16_Witness ==
    /\ AStarCase
    /\ BfsFrom(search.grid, {search.s}, search.g, 0) >= 5
    /\ Len(search.path) - 1 > Abs(search.s[1] - search.g[1]) + Abs(search.s[2] - search.g[2])

(***************************************************************************)
(* Properties of a sequence of plan_paths calls (SpecPlanner)              *)
(***************************************************************************)
\* the state is the one a plan_paths call of the bandit planner has just left:
\* obs holds the instance and the drones the call was given
JustPlanned == obs.op = "plan" /\ algorithm.name = "bandit_mha_star"

\* the replan conditions of the policy for drone d at tick t on the records alg
PolicyReplans(alg, d, t) ==
    /\ d.target # Nil
    /\ \/ d.id \notin DOMAIN alg.last_tick
       \/ alg.last_goal[d.id] # <<d.target.x, d.target.y>>
       \/ t - alg.last_tick[d.id] >= 20
       \/ d.path = <<>>

\* the records of id are the same in alg1 and alg2
SameRecords(alg1, alg2, id) ==
    /\ (id \in DOMAIN alg1.last_tick) = (id \in DOMAIN alg2.last_tick)
    /\ (id \in DOMAIN alg1.last_goal) = (id \in DOMAIN alg2.last_goal)
    /\ id \in DOMAIN alg1.last_tick => alg1.last_tick[id] = alg2.last_tick[id]
    /\ id \in DOMAIN alg1.last_goal => alg1.last_goal[id] = alg2.last_goal[id]

\* C3: in every plan_paths call a drone is replanned (path reassigned, last_goal
\* and last_tick set to the target xy and the tick) if and only if it has a
\* target and it was never planned, or its recorded goal differs, or 20 ticks
\* have passed since its last plan, or its path is empty; a drone that is not
\* replanned keeps its path and its records.
C3_ReplanPolicy ==
    JustPlanned =>
        \A i \in 1..Len(obs.drones) :
            LET d == obs.drones[i]
                t == params["tick"]
            IN /\ (i \in obs.replanned) <=> PolicyReplans(obs.alg, d, t)
               /\ i \in obs.replanned =>
                    /\ algorithm.last_goal[d.id] = <<d.target.x, d.target.y>>
                    /\ algorithm.last_tick[d.id] = t
                    /\ drones[i].path = plan_one(algorithm.grid, d.pos, d.target,
                                                 PGet(params, "cruise_alt_m", 60), params)
               /\ i \notin obs.replanned =>
                    /\ drones[i].path = d.path
                    /\ SameRecords(obs.alg, algorithm, d.id)

\* a call at tick 20 replans a drone planned at tick 0 whose goal is unchanged
\* and whose path is not empty
C3_Witness ==
    /\ JustPlanned
    /\ params["tick"] = 20
    /\ \E i \in obs.replanned :
          LET d == obs.drones[i]
          IN /\ d.id \in DOMAIN obs.alg.last_tick
             /\ obs.alg.last_tick[d.id] = 0
             /\ obs.alg.last_goal[d.id] = <<d.target.x, d.target.y>>
             /\ d.path # <<>>

\* C5 as stated: a call that finds the world and the requested cell size as the
\* previous call on the same instance left them does not rebuild the grid.
C5_NoRebuildWhenUnchanged ==
    (JustPlanned /\ obs.unchanged) => ~obs.rebuilt

\* C6: right after a plan_paths call, a second call on the same planner with
\* the same world, drones and params leaves every drone's path as it is.
C6_Idempotent ==
    JustPlanned =>
        LET again == plan_paths(algorithm, world, drones, params)
        IN \A i \in 1..Len(drones) : again.drones[i].path = drones[i].path

\* a call that replanned one of two drones and left alone the path of the
\* other, a path the drone has flown a part of and a replan would not return
C6_Witness ==
    /\ JustPlanned
    /\ Len(drones) = 2
    /\ \E i \in obs.replanned, j \in 1..2 :
          /\ j \notin obs.replanned
          /\ drones[j].path # <<>>
          /\ drones[j].path # PlanDrone(algorithm, drones[j],
                                        PGet(params, "cruise_alt_m", 60), params)

\* what a fresh instance returns on the inputs of the last call
FreshCall == plan_paths(BanditMHAStar, world, obs.drones, params)

\* C7 as stated: the paths after a call are those any other instance, whatever
\* it served before, produces on the same world, drones and params.
C7_Deterministic_AsStated ==
    JustPlanned =>
        \A i \in 1..Len(drones) : drones[i].path = FreshCall.drones[i].path

\* C7 amended: the path of a drone that the call replans is the one a fresh
\* instance computes on the same inputs whenever the instance's cached grid is
\* the grid a fresh instance builds; a drone the call does not replan keeps the
\* path it came with.
C7_Deterministic ==
    JustPlanned =>
        \A i \in 1..Len(drones) :
            /\ (i \in obs.replanned /\ algorithm.grid = FreshCall.alg.grid)
                  => drones[i].path = FreshCall.drones[i].path
            /\ i \notin obs.replanned => drones[i].path = obs.drones[i].path

\* a replan by an instance that holds records of the drone, toward a new goal
C7_Witness ==
    /\ JustPlanned
    /\ \E i \in obs.replanned :
          LET d == obs.drones[i]
          IN /\ d.id \in DOMAIN obs.alg.last_goal
             /\ obs.alg.last_goal[d.id] # <<d.target.x, d.target.y>>
             /\ algorithm.grid = FreshCall.alg.grid
             /\ Len(drones[i].path) >= 3

(***************************************************************************)
(* Properties of one pass (SpecPass)                                       *)
(***************************************************************************)
\* the lists that hold drone i of ds as it is, at either place, next to another
\* drone with the id of the other drone of ds
OthersVaried(ds, i) ==
    {ds2 \in PassLists :
        \E j \in 1..2 : ds2[j] = ds[i] /\ ds2[3 - j].id = ds[3 - i].id}

\* the path drone i of the list given has after the pass is the path it has
\* after a pass over any list that differs in the other drone or in the order
SamePathWhateverOthers(i) ==
    \A ds2 \in OthersVaried(search.given, i) :
        LET r == plan_paths(BanditMHAStar, world, ds2, params)
        IN \E j \in 1..2 :
              /\ ds2[j] = search.given[i]
              /\ r.drones[j].path = drones[i].path

\* a drone with no target keeps its path, and the records under its id are as
\* they were: there are none
NoTargetUntouched(i) ==
    search.given[i].target = Nil =>
        /\ drones[i].path = search.given[i].path
        /\ search.given[i].id \notin DOMAIN algorithm.last_goal
        /\ search.given[i].id \notin DOMAIN algorithm.last_tick

\* C32: within one plan_paths pass the path of a drone depends on the grid, the
\* params and the drone's own position and target only: another position,
\* target or path of the other drone, or another order, does not change it;
\* and a drone with no target keeps its path and its records.
C32_NoCrossDrone ==
    search.pc = "done" =>
        \A i \in 1..2 : SamePathWhateverOthers(i) /\ NoTargetUntouched(i)

(***************************************************************************)
(* Properties of a session (SpecSession)                                   *)
(***************************************************************************)
\* C4 as stated: whenever a tick's plan_paths replans a drone, the grid it
\* plans on is the grid of the engine's current world, also after set_world
\* has replaced the world.
C4_GridOfCurrentWorld ==
    (obs.plan # Nil /\ obs.plan.replanned # {}) =>
        obs.plan.grid = CachedGrid(BanditMHAStar, obs.plan.world, obs.plan.cell,
                                   obs.plan.inflate)

\* C8: between the return of plan_paths and the end of step_drones of a tick no
\* control message is applied: the world, the drones, the params and the
\* planner that step_drones finds are those plan_paths left.
C8_ControlBetweenTicks ==
    (tick_task # Nil /\ tick_task.pc = "step") =>
        obs.seen = <<world, drones, params, algorithm>>

\* a tick of the bandit planner on a drone, between its plan and its step,
\* after the client has sent three control messages or more and one tick ran
C8_Witness ==
    /\ tick_task # Nil
    /\ tick_task.pc = "step"
    /\ algorithm.name = "bandit_mha_star"
    /\ drones # <<>>
    /\ tick >= 1
    /\ budget.msgs <= MaxMsgs - 3

\* C9 as stated: once a pause, a reset or a disconnect has been handled while
\* the ticker ran, the ticker plans, steps and emits nothing until a later start.
C9_HaltStopsTicker == ~obs.ran

\* the registered names and the empty name aside, what set_algorithm carries
Registered(name) == name \in {"straight_line", "bandit_mha_star"}

C11_BadParamNeverAborts == tick_task # Nil => tick_task.pc # "failed"

\* the task the session holds has not ended: it is still to be started, or in
\* its loop
Ticking == tick_task # Nil /\ tick_task.pc \in {"created", "step", "send", "sleep"}

\* the step parts the session from the task it holds: it clears tick_task or puts
\* a new task in its place
TaskLetGo ==
    /\ tick_task' # tick_task
    /\ IF tick_task' = Nil THEN TRUE
       ELSE tick_task'.pc = "created" /\ ~tick_task'.cancel

\* C33: at most one ticking task runs per session: the session holds one task,
\* start puts a new one in its place only when there is none or it has ended,
\* and pause clears it only once the cancelled task has ended.
C33_OneTickingTask == [][TaskLetGo => ~Ticking]_vars

\* a pause has met a running task that had ticked, the task has ended and the
\* session holds no task
C33_Witness ==
    /\ obs.halted = "pause"
    /\ tick_task = Nil
    /\ handler = "recv"
    /\ tick >= 1
====
